---------------------------- MODULE Spec2Model ----------------------------
(***************************************************************************)
(* Model of the VendorPay AI reconciliation engine                         *)
(* (src/src/ai_models/reconciliation_engine.py), of the transaction store  *)
(* operations it uses (src/src/core/supabase_manager.py) and of the manual *)
(* match endpoint (src/src/api/financial_endpoints.py).                    *)
(*                                                                         *)
(* Amounts are in cents (0.01 = 1), dates are day numbers.  The amounts    *)
(* drawn below (425.00, 425.01, 425.02) are values on which the binary     *)
(* floating point comparisons of the code agree with exact arithmetic.     *)
(* Every `.execute()` of the store client is one step: it is a separate    *)
(* request to the database, and it either succeeds or raises.              *)
(***************************************************************************)
EXTENDS Integers, Sequences, FiniteSets, TLC

\* ------------------------------------------------------------- bounds
NumStmts == 2
NumBiz == 2
MaxFaults == 1
MaxManual == 1
MaxRuns == 2

StmtIds == 1..NumStmts
BizIds == 1..NumBiz

\* ---------------------------------------------------- program constants
ExactAmountTolerance == 1
ExactDateTolerance == 3

Runs == {"run1", "run2"}
Manual == "manual"
Procs == Runs \cup {Manual}

NoMatch == [statement_transaction_id |-> 0, business_transaction_id |-> 0,
            business_transaction_type |-> "none", match_type |-> "none"]
None == "None"

VARIABLES
    statement_transactions,   \* table: id -> row
    outgoing_transactions,    \* table: id -> row
    incoming_transactions,    \* table: id -> row
    reconciliation_records,   \* table: sequence of inserted rows
    pc,                       \* position of each caller
    frame,                    \* local variables of each caller
    results,                  \* the results dict of each run
    warnings,                 \* what each caller printed
    fault_budget,             \* store requests that may still raise
    manuals,                  \* manual-match requests served so far
    run_budget,               \* run_reconciliation calls still to come
    fuzzy_calls,              \* the last FuzzyMatcher.is_match call, if any
    libraries,                \* the optional imports that succeeded
    documents,                \* what process_document returned, call by call
    amount_calls,             \* the last AmountMatcher.find_matches call, if any
    cash_flow_reports,        \* what generate_cash_flow_report returned
    pipeline,                 \* the documents table and the processing tasks
    server,                   \* the development server's files and answers
    monitor                   \* a folder monitor and the folders it works on

vars == <<statement_transactions, outgoing_transactions, incoming_transactions,
          reconciliation_records, pc, frame, results, warnings, fault_budget, manuals,
          run_budget, fuzzy_calls, libraries, documents, amount_calls,
          cash_flow_reports, pipeline, server, monitor>>

\* the components run_reconciliation does not use
standalone == <<fuzzy_calls, libraries, documents, amount_calls,
                cash_flow_reports, pipeline, server, monitor>>

store == <<statement_transactions, outgoing_transactions, incoming_transactions,
           reconciliation_records>>

\* the variables of run_reconciliation and of the manual match
engine == <<store, pc, frame, results, warnings, fault_budget, manuals, run_budget>>

\* ------------------------------------------------------------ helpers
Abs(x) == IF x < 0 THEN -x ELSE x

Lower(s) ==
    CASE s = "DEBIT" -> "debit"
      [] s = "Debit" -> "debit"
      [] s = "CREDIT" -> "credit"
      [] s = "Credit" -> "credit"
      [] OTHER -> s

RECURSIVE SortedIds(_)
SortedIds(S) ==
    IF S = {} THEN <<>>
    ELSE LET m == CHOOSE x \in S : \A y \in S : x <= y
         IN <<m>> \o SortedIds(S \ {m})

\* the select without its .eq filter
SelectAll(table, column, value) ==
    LET ids == SortedIds(DOMAIN table)
    IN [n \in 1..Len(ids) |-> table[ids[n]]]

\* table.select('*').eq(column, value): the rows in table order
SelectEq(table, column, value) ==
    LET ids == SortedIds({k \in DOMAIN table : table[k][column] = value})
    IN [n \in 1..Len(ids) |-> table[ids[n]]]

\* table.update({column: value}).eq('id', id): rows with another id are untouched
UpdateEq(table, id, column, value) ==
    [k \in DOMAIN table |->
        IF k = id THEN [table[k] EXCEPT ![column] = value] ELSE table[k]]

\* ---------------------------------------------------------- ExactMatcher
\* a date is a day number; a missing or malformed one parses to None
NoDate == -1

ParseDate(d) == IF d < 0 THEN NoDate ELSE d

\* the tolerance written as 0.1
AmountOutsideTenCents(stmt_amount, business_amount) ==
    Abs(stmt_amount - business_amount) > 10 * ExactAmountTolerance

AmountOutsideTolerance(stmt_amount, business_amount) ==
    Abs(stmt_amount - business_amount) > ExactAmountTolerance

ExactIsMatch(statement_trans, business_trans, business_type) ==
    LET stmt_amount == Abs(statement_trans.amount)
        business_amount == business_trans.amount
        stmt_date == ParseDate(statement_trans.transaction_date)
        business_date == ParseDate(business_trans.transaction_date)
    IN  IF AmountOutsideTolerance(stmt_amount, business_amount) THEN FALSE
        ELSE IF stmt_date = NoDate \/ business_date = NoDate THEN FALSE
        ELSE IF Abs(stmt_date - business_date) > ExactDateTolerance THEN FALSE
        ELSE IF business_type = "outgoing"
                /\ Lower(statement_trans.transaction_type) # "debit" THEN FALSE
        ELSE IF business_type = "incoming"
                /\ Lower(statement_trans.transaction_type) # "credit" THEN FALSE
        ELSE TRUE

\* ------------------------------------------- _run_exact_matching loops
\* inner loop: the first business transaction, from position j on, that is
\* not consumed and matches; 0 when there is none
\* the inner loop without its "already consumed" test
RECURSIVE FirstEligibleAnyBusiness(_, _, _, _, _)
FirstEligibleAnyBusiness(stmt, business, matched_business, business_type, j) ==
    IF j > Len(business) THEN 0
    ELSE IF ExactIsMatch(stmt, business[j], business_type) THEN j
    ELSE FirstEligibleAnyBusiness(stmt, business, matched_business,
                                  business_type, j + 1)

\* the inner loop as a best-of search: of the candidates that are not consumed
\* and match, the one closest in amount
FirstEligibleClosest(stmt, business, matched_business, business_type, j) ==
    LET eligible == {k \in j..Len(business) :
                        /\ business[k].id \notin matched_business
                        /\ ExactIsMatch(stmt, business[k], business_type)}
        diff(k) == Abs(Abs(stmt.amount) - business[k].amount)
    IN  IF eligible = {} THEN 0
        ELSE CHOOSE k \in eligible :
                \A l \in eligible : diff(k) < diff(l) \/ (diff(k) = diff(l) /\ k <= l)

RECURSIVE FirstEligible(_, _, _, _, _)
FirstEligible(stmt, business, matched_business, business_type, j) ==
    IF j > Len(business) THEN 0
    ELSE IF business[j].id \in matched_business
         THEN FirstEligible(stmt, business, matched_business, business_type, j + 1)
    ELSE IF ExactIsMatch(stmt, business[j], business_type) THEN j
    ELSE FirstEligible(stmt, business, matched_business, business_type, j + 1)

\* outer loop resumed at statement i: the next <<i, j>> that matches, <<0, 0>>
\* when the loop ends without one
RECURSIVE NextExactMatch(_, _, _, _, _, _)
NextExactMatch(statements, business, matched_statements, matched_business, business_type, i) ==
    IF i > Len(statements) THEN <<0, 0>>
    ELSE IF statements[i].id \in matched_statements
         THEN NextExactMatch(statements, business, matched_statements,
                             matched_business, business_type, i + 1)
    ELSE LET j == FirstEligible(statements[i], business, matched_business,
                                business_type, 1)
         IN IF j # 0 THEN <<i, j>>
            ELSE NextExactMatch(statements, business, matched_statements,
                                matched_business, business_type, i + 1)

\* the match dict written with the fuzzy pass's tag and a lower score
ExactMatchDictAsFuzzy(stmt, business_trans, business_type) ==
    [statement_transaction |-> stmt,
     business_transaction |-> business_trans,
     business_transaction_type |-> business_type,
     confidence_score |-> 80,
     match_type |-> "fuzzy"]

\* confidence_score is in hundredths: 1.0 is 100
ExactMatchDict(stmt, business_trans, business_type) ==
    [statement_transaction |-> stmt,
     business_transaction |-> business_trans,
     business_transaction_type |-> business_type,
     confidence_score |-> 100,
     match_type |-> "exact"]

\* ------------------------------------- AmountMatcher and DateMatcher
AmountTolerance == 1
DateToleranceDays == 1

TypeAligned(stmt, business_type) ==
    /\ ~(business_type = "outgoing" /\ Lower(stmt.transaction_type) # "debit")
    /\ ~(business_type = "incoming" /\ Lower(stmt.transaction_type) # "credit")

\* the amounts, in cents, that are one cent apart and whose difference as
\* floats comes out above 0.01: 100.01 - 100.00 is 0.010000000000005116
RoundedAboveTolerance == {<<10001, 10000>>}

\* abs(stmt_amount - business_amount) <= self.amount_tolerance, on floats
AmountWithinTolerance(stmt_amount, business_amount) ==
    IF Abs(stmt_amount - business_amount) = AmountTolerance
    THEN <<stmt_amount, business_amount>> \notin RoundedAboveTolerance
    ELSE Abs(stmt_amount - business_amount) < AmountTolerance

\* the pairs AmountMatcher.find_matches keeps
AmountPairMatches(stmt, business_trans, business_type) ==
    /\ AmountWithinTolerance(Abs(stmt.amount), business_trans.amount)
    /\ TypeAligned(stmt, business_type)

\* the pairs DateMatcher.find_matches keeps
DatePairMatches(stmt, business_trans, business_type) ==
    LET stmt_date == ParseDate(stmt.transaction_date)
        business_date == ParseDate(business_trans.transaction_date)
    IN  /\ stmt_date # NoDate
        /\ business_date # NoDate
        /\ Abs(stmt_date - business_date) <= DateToleranceDays
        /\ TypeAligned(stmt, business_type)

\* ------------------------------------------------------ _generate_summary
\* a quotient is kept as numerator and denominator; 0 is 0/1
Divide(n, d) ==
    [num |-> n, den |-> d,
     raised |-> IF d = 0 THEN "ZeroDivisionError" ELSE None]

\* the rate without its "if total_matches > 0" guard
RateUnguarded(total_matches, unmatched) ==
    Divide(total_matches, total_matches + unmatched)

ReconciliationRate(total_matches, unmatched) ==
    IF total_matches > 0
    THEN Divide(total_matches, total_matches + unmatched)
    ELSE Divide(0, 1)

GenerateSummary(res) ==
    LET total_matches == Len(res.exact_matches) + Len(res.fuzzy_matches)
                         + Len(res.amount_matches) + Len(res.date_matches)
    IN [total_matches_found |-> total_matches,
        exact_matches |-> Len(res.exact_matches),
        fuzzy_matches |-> Len(res.fuzzy_matches),
        amount_matches |-> Len(res.amount_matches),
        date_matches |-> Len(res.date_matches),
        unmatched_statements |-> Len(res.unmatched_statements),
        unmatched_business_transactions |-> Len(res.unmatched_business),
        reconciliation_rate |->
            ReconciliationRate(total_matches, Len(res.unmatched_statements))]

EmptyResults ==
    [exact_matches |-> <<>>, fuzzy_matches |-> <<>>, amount_matches |-> <<>>,
     date_matches |-> <<>>, unmatched_statements |-> <<>>,
     unmatched_business |-> <<>>, reconciliation_summary |-> None]

EmptyFrame ==
    [statements |-> <<>>, outgoing |-> <<>>, incoming |-> <<>>,
     matched_statements |-> {}, matched_business |-> {},
     phase |-> "none", i |-> 0, reconciliation_data |-> NoMatch,
     available_statements |-> <<>>, available_outgoing |-> <<>>,
     available_incoming |-> <<>>, error |-> None]

\* ------------------------------------------------------------- the store
\* a request to the store succeeds, or raises while the budget lasts
Outcomes == IF fault_budget > 0 THEN {TRUE, FALSE} ELSE {TRUE}

Spend(ok) == fault_budget' = IF ok THEN fault_budget ELSE fault_budget - 1

Mine(p, f) == [frame EXCEPT ![p] = f]

\* run_reconciliation's except clause: the call raises
Raise(r, why) ==
    /\ pc' = [pc EXCEPT ![r] = "raised"]
    /\ frame' = [frame EXCEPT ![r].error = why]

\* ------------------------------------------------- run_reconciliation
StartRun(r) ==
    /\ pc[r] \in {"idle", "done", "raised"}
    /\ run_budget > 0
    /\ run_budget' = run_budget - 1
    /\ frame' = [frame EXCEPT ![r] = EmptyFrame]
    /\ pc' = [pc EXCEPT ![r] = "read_outgoing"]
    /\ UNCHANGED <<standalone, store, results, warnings, fault_budget, manuals>>

ReadOutgoing(r) ==
    /\ pc[r] = "read_outgoing"
    /\ \E ok \in Outcomes :
        /\ Spend(ok)
        /\ IF ok
           THEN /\ frame' = [frame EXCEPT ![r].outgoing =
                        SelectEq(outgoing_transactions, "reconciliation_status",
                                 "unreconciled")]
                /\ pc' = [pc EXCEPT ![r] = "read_incoming"]
           ELSE Raise(r, "store")
    /\ UNCHANGED <<standalone, store, results, warnings, manuals, run_budget>>

ReadIncoming(r) ==
    /\ pc[r] = "read_incoming"
    /\ \E ok \in Outcomes :
        /\ Spend(ok)
        /\ IF ok
           THEN /\ frame' = [frame EXCEPT ![r].incoming =
                        SelectEq(incoming_transactions, "reconciliation_status",
                                 "unreconciled")]
                /\ pc' = [pc EXCEPT ![r] = "read_statements"]
           ELSE Raise(r, "store")
    /\ UNCHANGED <<standalone, store, results, warnings, manuals, run_budget>>

ReadStatements(r) ==
    /\ pc[r] = "read_statements"
    /\ \E ok \in Outcomes :
        /\ Spend(ok)
        /\ IF ok
           THEN /\ frame' = [frame EXCEPT
                        ![r].statements =
                            SelectEq(statement_transactions, "is_matched", FALSE),
                        ![r].phase = "outgoing",
                        ![r].i = 1]
                /\ results' = [results EXCEPT ![r] = EmptyResults]
                /\ pc' = [pc EXCEPT ![r] = "exact_outgoing"]
           ELSE /\ Raise(r, "store")
                /\ UNCHANGED results
    /\ UNCHANGED <<standalone, store, warnings, manuals, run_budget>>

\* one of the two loops of _run_exact_matching, from statement frame[r].i up to
\* the next await (a match was appended) or to the end of the loop
ExactLoop(r, business_type, business, after) ==
    LET f == frame[r]
        nm == NextExactMatch(f.statements, business, f.matched_statements,
                             f.matched_business, business_type, f.i)
    IN  IF nm # <<0, 0>>
        THEN LET stmt == f.statements[nm[1]]
                 business_trans == business[nm[2]]
                 match == ExactMatchDict(stmt, business_trans, business_type)
             IN /\ results' = [results EXCEPT ![r].exact_matches =
                                    Append(@, match)]
                /\ frame' = Mine(r, [f EXCEPT
                        !.matched_statements = @ \cup {stmt.id},
                        !.matched_business = @ \cup {business_trans.id},
                        !.i = nm[1] + 1,
                        !.phase = business_type,
                        !.reconciliation_data =
                            [statement_transaction_id |-> stmt.id,
                             business_transaction_id |-> business_trans.id,
                             business_transaction_type |-> business_type,
                             match_type |-> match.match_type]])
                /\ pc' = [pc EXCEPT ![r] = "insert"]
        ELSE /\ frame' = Mine(r, [f EXCEPT !.i = 1, !.phase = "none"])
             /\ pc' = [pc EXCEPT ![r] = after]
             /\ UNCHANGED results

ExactOutgoing(r) ==
    /\ pc[r] = "exact_outgoing"
    /\ ExactLoop(r, "outgoing", frame[r].outgoing, "exact_incoming")
    /\ UNCHANGED <<standalone, store, warnings, fault_budget, manuals, run_budget>>

ExactIncoming(r) ==
    /\ pc[r] = "exact_incoming"
    /\ ExactLoop(r, "incoming", frame[r].incoming, "fuzzy")
    /\ UNCHANGED <<standalone, store, warnings, fault_budget, manuals, run_budget>>

\* --------------------- create_reconciliation, for a run or a manual match
\* where the caller goes on when create_reconciliation returned or raised
Returned(p) ==
    IF p = Manual THEN "http_200"
    ELSE IF frame[p].phase = "outgoing" THEN "exact_outgoing"
    ELSE "exact_incoming"

\* _create_reconciliation_record prints a warning and goes on; the endpoint
\* answers 500
CreateFailed(p) ==
    /\ pc' = [pc EXCEPT ![p] = IF p = Manual THEN "http_500" ELSE Returned(p)]
    /\ warnings' = [warnings EXCEPT ![p] = @ + 1]

InsertRecord(p) ==
    /\ pc[p] = "insert"
    /\ \E ok \in Outcomes :
        /\ Spend(ok)
        /\ IF ok
           THEN /\ reconciliation_records' =
                        Append(reconciliation_records, frame[p].reconciliation_data)
                /\ pc' = [pc EXCEPT ![p] = "flip_business"]
                /\ UNCHANGED warnings
           ELSE /\ CreateFailed(p)
                /\ UNCHANGED reconciliation_records
    /\ UNCHANGED <<standalone, statement_transactions, outgoing_transactions,
                   incoming_transactions, frame, results, manuals, run_budget>>

FlipBusiness(p) ==
    /\ pc[p] = "flip_business"
    /\ LET data == frame[p].reconciliation_data
       IN \E ok \in Outcomes :
            /\ Spend(ok)
            /\ IF ok
               THEN /\ outgoing_transactions' =
                        IF data.business_transaction_type = "outgoing"
                        THEN UpdateEq(outgoing_transactions,
                                      data.business_transaction_id,
                                      "reconciliation_status", "matched")
                        ELSE outgoing_transactions
                    /\ incoming_transactions' =
                        IF data.business_transaction_type = "incoming"
                        THEN UpdateEq(incoming_transactions,
                                      data.business_transaction_id,
                                      "reconciliation_status", "matched")
                        ELSE incoming_transactions
                    /\ pc' = [pc EXCEPT ![p] = "flip_statement"]
                    /\ UNCHANGED warnings
               ELSE /\ CreateFailed(p)
                    /\ UNCHANGED <<outgoing_transactions, incoming_transactions>>
    /\ UNCHANGED <<standalone, statement_transactions, reconciliation_records, frame,
                   results, manuals, run_budget>>

FlipStatement(p) ==
    /\ pc[p] = "flip_statement"
    /\ LET data == frame[p].reconciliation_data
       IN \E ok \in Outcomes :
            /\ Spend(ok)
            /\ IF ok
               THEN /\ statement_transactions' =
                        UpdateEq(statement_transactions,
                                 data.statement_transaction_id, "is_matched", TRUE)
                    /\ pc' = [pc EXCEPT ![p] = Returned(p)]
                    /\ UNCHANGED warnings
               ELSE /\ CreateFailed(p)
                    /\ UNCHANGED statement_transactions
    /\ UNCHANGED <<standalone, outgoing_transactions, incoming_transactions,
                   reconciliation_records, frame, results, manuals, run_budget>>

\* ------------------------------------------------- the three later passes
\* the later passes given every candidate
AvailableUnfiltered(transactions, matched_ids) == transactions

Available(transactions, matched_ids) ==
    SelectSeq(transactions, LAMBDA t : t.id \notin matched_ids)

RunFuzzyMatching(r) ==
    /\ pc[r] = "fuzzy"
    /\ LET exact == results[r].exact_matches
           matched_stmt_ids ==
               {exact[n].statement_transaction.id : n \in 1..Len(exact)}
           matched_business_ids ==
               {exact[n].business_transaction.id : n \in 1..Len(exact)}
       IN frame' = [frame EXCEPT
               ![r].available_statements =
                   Available(frame[r].statements, matched_stmt_ids),
               ![r].available_outgoing =
                   Available(frame[r].outgoing, matched_business_ids),
               ![r].available_incoming =
                   Available(frame[r].incoming, matched_business_ids)]
    /\ pc' = [pc EXCEPT ![r] = "amount"]
    /\ UNCHANGED <<standalone, store, results, warnings, fault_budget, manuals, run_budget>>

RunAmountMatching(r) ==
    /\ pc[r] = "amount"
    /\ pc' = [pc EXCEPT ![r] = "date"]
    /\ UNCHANGED <<standalone, store, frame, results, warnings, fault_budget, manuals, run_budget>>

RunDateMatching(r) ==
    /\ pc[r] = "date"
    /\ pc' = [pc EXCEPT ![r] = "summary"]
    /\ UNCHANGED <<standalone, store, frame, results, warnings, fault_budget, manuals, run_budget>>

Summarize(r) ==
    /\ pc[r] = "summary"
    /\ LET summary == GenerateSummary(results[r])
       IN IF summary.reconciliation_rate.raised # None
          THEN /\ Raise(r, "ZeroDivisionError")
               /\ UNCHANGED results
          ELSE /\ results' = [results EXCEPT ![r].reconciliation_summary = summary]
               /\ pc' = [pc EXCEPT ![r] = "done"]
               /\ UNCHANGED frame
    /\ UNCHANGED <<standalone, store, warnings, fault_budget, manuals, run_budget>>

\* ------------------------------------------ create_manual_reconciliation
ManualMatch ==
    /\ pc[Manual] \in {"idle", "http_200", "http_500"}
    /\ manuals < MaxManual
    /\ \E s \in StmtIds, b \in BizIds, t \in {"outgoing", "incoming"} :
        frame' = [frame EXCEPT ![Manual].reconciliation_data =
                    [statement_transaction_id |-> s,
                     business_transaction_id |-> b,
                     business_transaction_type |-> t,
                     match_type |-> "manual"]]
    /\ manuals' = manuals + 1
    /\ pc' = [pc EXCEPT ![Manual] = "insert"]
    /\ UNCHANGED <<standalone, store, results, warnings, fault_budget, run_budget>>

\* ------------------------------------------------------- specifications
StmtAmounts == {-42500, 42501}
StmtTypes == {"debit", "CREDIT"}
StmtDates == {10}
BizAmounts == {42500, 42502}
BizDates == {10, 14}
BizVariants == {"outgoing", "incoming"}

StatementRow(k, a, d, t) ==
    [id |-> k, amount |-> a, transaction_date |-> d, transaction_type |-> t,
     is_matched |-> FALSE]

BusinessRow(k, a, d) ==
    [id |-> k, amount |-> a, transaction_date |-> d,
     reconciliation_status |-> "unreconciled"]

InitTables(amounts_s, types_s, dates_s, variants_b, amounts_b, dates_b) ==
    /\ \E sa \in [StmtIds -> amounts_s], st \in [StmtIds -> types_s],
          sd \in [StmtIds -> dates_s] :
        statement_transactions =
            [k \in StmtIds |-> StatementRow(k, sa[k], sd[k], st[k])]
    /\ \E bv \in [BizIds -> variants_b], ba \in [BizIds -> amounts_b],
          bd \in [BizIds -> dates_b] :
        /\ outgoing_transactions =
               [k \in {b \in BizIds : bv[b] = "outgoing"} |->
                    BusinessRow(k, ba[k], bd[k])]
        /\ incoming_transactions =
               [k \in {b \in BizIds : bv[b] = "incoming"} |->
                    BusinessRow(k, ba[k], bd[k])]
    /\ reconciliation_records = <<>>

\* no document uploaded, no task started, no request answered
IdlePipeline == [documents |-> <<>>, tasks |-> <<>>, responses |-> <<>>]

\* no file uploaded, no request answered
IdleServer ==
    [processor_available |-> TRUE, metadata |-> <<>>, results |-> {},
     answers |-> <<>>]

\* a handler just constructed, nothing dropped into the watched folder yet
IdleMonitor ==
    [processor_available |-> TRUE, processed_files |-> {}, input |-> {},
     events |-> <<>>, processed |-> {}, failed |-> {}, results |-> {},
     arrivals |-> 0]

\* no FuzzyMatcher call and no document yet
InitStandalone ==
    /\ fuzzy_calls = <<>>
    /\ libraries = {}
    /\ documents = <<>>
    /\ amount_calls = <<>>
    /\ cash_flow_reports = <<>>
    /\ pipeline = IdlePipeline
    /\ server = IdleServer
    /\ monitor = IdleMonitor

InitCallers ==
    /\ pc = [p \in Procs |-> "idle"]
    /\ frame = [p \in Procs |-> EmptyFrame]
    /\ results = [r \in Runs |-> EmptyResults]
    /\ warnings = [p \in Procs |-> 0]
    /\ manuals = 0

\* no run_reconciliation call to come, nothing in the store
InitIdleEngine ==
    /\ statement_transactions = <<>>
    /\ outgoing_transactions = <<>>
    /\ incoming_transactions = <<>>
    /\ reconciliation_records = <<>>
    /\ InitCallers
    /\ fault_budget = 0
    /\ run_budget = 0

RunStep(r) ==
    \/ ReadOutgoing(r)
    \/ ReadIncoming(r)
    \/ ReadStatements(r)
    \/ ExactOutgoing(r)
    \/ ExactIncoming(r)
    \/ InsertRecord(r)
    \/ FlipBusiness(r)
    \/ FlipStatement(r)
    \/ RunFuzzyMatching(r)
    \/ RunAmountMatching(r)
    \/ RunDateMatching(r)
    \/ Summarize(r)

RunNext(r) == StartRun(r) \/ RunStep(r)

\* one run_reconciliation call over a healthy store, any candidate lists
Init ==
    /\ InitTables(StmtAmounts, StmtTypes, StmtDates, BizVariants, BizAmounts,
                  BizDates)
    /\ InitCallers
    /\ InitStandalone
    /\ fault_budget = 0
    /\ run_budget = 1

Next == RunNext("run1")

Spec == Init /\ [][Next]_vars

\* one server process over a store whose requests may fail: the handlers are
\* coroutines that never yield (the store client blocks), so a
\* run_reconciliation call or a manual match starts when no other is under way
Busy(p) == pc[p] \notin {"idle", "done", "raised", "http_200", "http_500"}

Quiescent == \A p \in Procs : ~Busy(p)

InitStore ==
    /\ InitTables({-42500}, {"debit"}, {10}, BizVariants, BizAmounts, {10})
    /\ InitCallers
    /\ InitStandalone
    /\ fault_budget = MaxFaults
    /\ run_budget = MaxRuns

SerialStartRun == Quiescent /\ StartRun("run1")

SerialManualMatch == Quiescent /\ ManualMatch

NextStore ==
    \/ SerialStartRun
    \/ RunStep("run1")
    \/ SerialManualMatch
    \/ InsertRecord(Manual)
    \/ FlipBusiness(Manual)
    \/ FlipStatement(Manual)

SpecStore == InitStore /\ [][NextStore]_vars

\* two server processes over a healthy store: two run_reconciliation calls
\* whose store requests interleave
InitConcurrent ==
    /\ InitTables({-42500}, {"debit"}, {10}, {"outgoing"}, BizAmounts, {10})
    /\ InitCallers
    /\ InitStandalone
    /\ fault_budget = 0
    /\ run_budget = MaxRuns

NextConcurrent == \E r \in Runs : RunNext(r)

SpecConcurrent == InitConcurrent /\ [][NextConcurrent]_vars

\* one run_reconciliation call over lists in which a statement has several
\* eligible candidates, some closer than others
FirstFitBizAmounts == {42499, 42500}
FirstFitBizDates == {10, 12}

InitFirstFit ==
    /\ InitTables({-42500}, {"debit", "credit"}, StmtDates, BizVariants,
                  FirstFitBizAmounts, FirstFitBizDates)
    /\ InitCallers
    /\ InitStandalone
    /\ fault_budget = 0
    /\ run_budget = 1

SpecFirstFit == InitFirstFit /\ [][Next]_vars

\* ----------------------------------------------------------- FuzzyMatcher
\* The floats of is_match are kept as exact fractions in lowest terms; the
\* inputs drawn below are values on which the float comparisons of the code
\* (> 0.05, >= 0.8) agree with exact arithmetic.
Max(a, b) == IF a >= b THEN a ELSE b

RECURSIVE GCD(_, _)
GCD(a, b) == IF b = 0 THEN a ELSE GCD(b, a % b)

Frac(n, d) ==
    LET g == GCD(Abs(n), d)
    IN [num |-> n \div g, den |-> d \div g]

FracAdd(x, y) == Frac(x.num * y.den + y.num * x.den, x.den * y.den)
FracSub(x, y) == Frac(x.num * y.den - y.num * x.den, x.den * y.den)
FracMul(x, y) == Frac(x.num * y.num, x.den * y.den)
FracLess(x, y) == x.num * y.den < y.num * x.den
FracMax(x, y) == IF FracLess(x, y) THEN y ELSE x

SimilarityThreshold == Frac(8, 10)
FuzzyAmountTolerance == Frac(5, 100)
FuzzyDateTolerance == 7

\* _clean_description: lower case, banking terms removed, other characters
\* to single spaces, stripped
CleanDescription(description) ==
    CASE description = "ABC Coffee Payment" -> "abc coffee"
      [] description = "Debit Purchase" -> ""
      [] description = "abc coffee" -> "abc coffee"
      [] description = "ABC-Coffer" -> "abc coffer"
      [] description = "abc coffee company!" -> "abc coffee company"
      [] description = "XYZ" -> "xyz"
      [] OTHER -> ""

\* difflib.SequenceMatcher(None, text1, text2).ratio(): twice the matched
\* characters over the total length
SequenceMatcherRatio(text1, text2) ==
    CASE text1 = text2 -> Frac(1, 1)
      [] {text1, text2} = {"abc coffee", "abc coffer"} -> Frac(18, 20)
      [] {text1, text2} = {"abc coffee", "abc coffee company"} -> Frac(20, 28)
      [] {text1, text2} = {"abc coffer", "abc coffee company"} -> Frac(18, 28)
      [] OTHER -> Frac(0, 1)

CalculateSimilarity(text1, text2) ==
    IF text1 = "" \/ text2 = "" THEN Frac(0, 1)
    ELSE SequenceMatcherRatio(text1, text2)

\* max(desc_similarity, vendor_similarity)
TextSimilarity(statement_trans, business_trans) ==
    LET stmt_desc == CleanDescription(statement_trans.description)
        business_desc == CleanDescription(business_trans.description)
        vendor_name == business_trans.vendor_name
        vendor_similarity ==
            IF vendor_name # ""
            THEN CalculateSimilarity(stmt_desc, CleanDescription(vendor_name))
            ELSE Frac(0, 1)
        desc_similarity == CalculateSimilarity(stmt_desc, business_desc)
    IN FracMax(desc_similarity, vendor_similarity)

\* the amount score taken as the difference itself
AmountScoreAsDifference(amount_diff_pct) == amount_diff_pct

AmountScore(amount_diff_pct) == FracSub(Frac(1, 1), amount_diff_pct)

DateScore(date_diff) == FracMax(Frac(0, 1), FracSub(Frac(1, 1), Frac(date_diff, 7)))

\* the weights of amount and date exchanged
WeightedConfidenceSwapped(amount_score, date_score, text_score) ==
    FracAdd(FracAdd(FracMul(amount_score, Frac(2, 10)),
                    FracMul(date_score, Frac(4, 10))),
            FracMul(text_score, Frac(4, 10)))

WeightedConfidence(amount_score, date_score, text_score) ==
    FracAdd(FracAdd(FracMul(amount_score, Frac(4, 10)),
                    FracMul(date_score, Frac(2, 10))),
            FracMul(text_score, Frac(4, 10)))

\* return False, 0.0
FuzzyRejected == [is_match |-> FALSE, confidence |-> Frac(0, 1)]

\* business_type is a parameter the method never reads
FuzzyIsMatch(statement_trans, business_trans, business_type) ==
    LET stmt_amount == Abs(statement_trans.amount)
        business_amount == business_trans.amount
        quotient == Divide(Abs(stmt_amount - business_amount),
                           Max(stmt_amount, business_amount))
        stmt_date == ParseDate(statement_trans.transaction_date)
        business_date == ParseDate(business_trans.transaction_date)
    IN  IF quotient.raised # None THEN FuzzyRejected
        ELSE LET amount_diff_pct == Frac(quotient.num, quotient.den)
             IN IF FracLess(FuzzyAmountTolerance, amount_diff_pct) THEN FuzzyRejected
                ELSE IF stmt_date = NoDate \/ business_date = NoDate THEN FuzzyRejected
                ELSE LET date_diff == Abs(stmt_date - business_date)
                     IN IF date_diff > FuzzyDateTolerance THEN FuzzyRejected
                        ELSE LET confidence ==
                                    WeightedConfidence(
                                        AmountScore(amount_diff_pct),
                                        DateScore(date_diff),
                                        TextSimilarity(statement_trans, business_trans))
                             IN [is_match |-> ~FracLess(confidence, SimilarityThreshold),
                                 confidence |-> confidence]

\* the transactions FuzzyMatcher.is_match is applied to
FuzzyStatements ==
    [amount : {-10000, 0}, transaction_date : {10, NoDate},
     description : {"ABC Coffee Payment", "Debit Purchase"}]

FuzzyBusiness ==
    [amount : {10000, 9700, 9500, 9400, 0}, transaction_date : {10, 15, 17, 18},
     description : {"abc coffee", "ABC-Coffer", "XYZ"},
     vendor_name : {"", "abc coffee company!"}]

FuzzyIsMatchCall ==
    /\ \E statement_trans \in FuzzyStatements, business_trans \in FuzzyBusiness,
          business_type \in {"outgoing", "incoming"} :
        fuzzy_calls' =
            <<[statement_trans |-> statement_trans,
               business_trans |-> business_trans,
               business_type |-> business_type,
               returned |-> FuzzyIsMatch(statement_trans, business_trans,
                                         business_type)]>>
    /\ UNCHANGED <<engine, libraries, documents, amount_calls, cash_flow_reports,
                   pipeline, server, monitor>>

\* FuzzyMatcher.is_match on its own, applied to any pair
InitFuzzy == InitIdleEngine /\ InitStandalone

NextFuzzy == FuzzyIsMatchCall

SpecFuzzy == InitFuzzy /\ [][NextFuzzy]_vars

\* ------------------------------------------- AmountMatcher.find_matches
\* the pairs in the order the two loops visit them
LoopPairs(statements, business_transactions) ==
    [n \in 1..(Len(statements) * Len(business_transactions)) |->
        <<((n - 1) \div Len(business_transactions)) + 1,
          ((n - 1) % Len(business_transactions)) + 1>>]

\* 1.0 - (amount_diff / max(stmt_amount, business_amount)); the division
\* raises when both amounts are 0
AmountConfidence(stmt_amount, business_amount) ==
    IF Max(stmt_amount, business_amount) = 0
    THEN [raised |-> "ZeroDivisionError", confidence |-> Frac(0, 1)]
    ELSE [raised |-> None,
          confidence |-> FracSub(Frac(1, 1),
                                 Frac(Abs(stmt_amount - business_amount),
                                      Max(stmt_amount, business_amount)))]

\* list.sort(key=confidence, reverse=True): stable, so equal keys keep the
\* order in which they were appended
RECURSIVE SortByConfidence(_)
SortByConfidence(matches) ==
    IF matches = <<>> THEN <<>>
    ELSE LET sorted == SortByConfidence(SubSeq(matches, 1, Len(matches) - 1))
             last == matches[Len(matches)]
             ahead == SelectSeq(sorted, LAMBDA m : ~FracLess(m.confidence, last.confidence))
             behind == SelectSeq(sorted, LAMBDA m : FracLess(m.confidence, last.confidence))
         IN ahead \o <<last>> \o behind

AmountFindMatches(statements, business_transactions, business_type) ==
    LET pairs == LoopPairs(statements, business_transactions)
        kept == SelectSeq(pairs, LAMBDA pair :
                    AmountPairMatches(statements[pair[1]],
                                      business_transactions[pair[2]], business_type))
        scored == [n \in 1..Len(kept) |->
                    AmountConfidence(Abs(statements[kept[n][1]].amount),
                                     business_transactions[kept[n][2]].amount)]
        matches == [n \in 1..Len(kept) |->
                    [stmt |-> statements[kept[n][1]],
                     business_trans |-> business_transactions[kept[n][2]],
                     confidence |-> scored[n].confidence]]
    IN  IF \E n \in 1..Len(kept) : scored[n].raised # None
        THEN [raised |-> "ZeroDivisionError", matches |-> <<>>]
        ELSE [raised |-> None, matches |-> SortByConfidence(matches)]

MaxAmountList == 2

AmountStatements ==
    [amount : {0, -42500, 10001}, transaction_type : {"debit", "CREDIT"}]

AmountBusiness == [amount : {0, 42500, 42501, 10000}]

\* lists of 1..MaxAmountList rows, each row with its position as id
AmountLists(rows) ==
    UNION {{[k \in 1..n |-> [id |-> k] @@ list[k]] : list \in [1..n -> rows]} :
            n \in 1..MaxAmountList}

AmountFindMatchesCall ==
    /\ \E statements \in AmountLists(AmountStatements),
          business_transactions \in AmountLists(AmountBusiness),
          business_type \in {"outgoing", "incoming"} :
        amount_calls' =
            <<[statements |-> statements,
               business_transactions |-> business_transactions,
               business_type |-> business_type,
               returned |-> AmountFindMatches(statements, business_transactions,
                                              business_type)]>>
    /\ UNCHANGED <<engine, fuzzy_calls, libraries, documents, cash_flow_reports,
                   pipeline, server, monitor>>

\* AmountMatcher.find_matches on its own, applied to any lists
InitAmount == InitIdleEngine /\ InitStandalone

NextAmount == AmountFindMatchesCall

SpecAmount == InitAmount /\ [][NextAmount]_vars

\* ------------------------------------------------------ DocumentProcessor
\* A text is the sequence of its lines (the empty string is <<>>); the
\* primitives of str and re are tabulated on the lines and texts drawn below.
\* The module needs PIL to load (the Image.Image annotation of
\* _preprocess_image is evaluated at import), so every installation has it.
ImageExtensions == {".jpg", ".jpeg", ".png", ".bmp", ".tiff", ".tif"}
PdfExtensions == {".pdf"}
TextExtensions == {".txt", ".csv", ".json"}

\* str.lower() on the suffixes and lines drawn below
SuffixLower(suffix) ==
    CASE suffix = ".TXT" -> ".txt"
      [] suffix = ".CSV" -> ".csv"
      [] suffix = ".Json" -> ".json"
      [] suffix = ".PDF" -> ".pdf"
      [] suffix = ".PNG" -> ".png"
      [] OTHER -> suffix

LowerLine(line) ==
    CASE line = "[draft] INVOICE" -> "[draft] invoice"
      [] line = "Due Date: soon" -> "due date: soon"
      [] line = "Invoice" -> "invoice"
      [] line = "Tax" -> "tax"
      [] line = "Total: $4.25" -> "total: $4.25"
      [] line = "Cash receipt" -> "cash receipt"
      [] line = "Thank you" -> "thank you"
      [] line = "Balance" -> "balance"
      [] line = "Deposit" -> "deposit"
      [] line = "Check" -> "check"
      [] line = "Pay to: ABC Coffee" -> "pay to: abc coffee"
      [] line = "Daily Sales" -> "daily sales"
      [] line = "Units sold" -> "units sold"
      [] line = " Receipt" -> " receipt"
      [] line = "Total $9" -> "total $9"
      [] line = "Total Amount" -> "total amount"
      [] line = "Credit card" -> "credit card"
      [] line = "Total" -> "total"
      [] line = "[Text Read Error: 'utf-8' codec can't decode byte 0xff in position 0: invalid start byte]" -> "[text read error: 'utf-8' codec can't decode byte 0xff in position 0: invalid start byte]"
      [] line = "VENDOR INVOICE" -> "vendor invoice"
      [] line = "Invoice #: INV-2024-001" -> "invoice #: inv-2024-001"
      [] line = "Date: January 15, 2024" -> "date: january 15, 2024"
      [] line = "Due Date: February 14, 2024" -> "due date: february 14, 2024"
      [] line = "Bill To:" -> "bill to:"
      [] line = "Dunkin' Donuts Franchise" -> "dunkin' donuts franchise"
      [] line = "123 Main Street" -> "123 main street"
      [] line = "Boston, MA 02101" -> "boston, ma 02101"
      [] line = "From:" -> "from:"
      [] line = "ABC Coffee Supplies Inc." -> "abc coffee supplies inc."
      [] line = "456 Supply Avenue" -> "456 supply avenue"
      [] line = "Cambridge, MA 02139" -> "cambridge, ma 02139"
      [] line = "Phone: (617) 555-0123" -> "phone: (617) 555-0123"
      [] line = "Email: billing@abccoffee.com" -> "email: billing@abccoffee.com"
      [] line = "Description                    Qty    Unit Price    Total" -> "description                    qty    unit price    total"
      [] line = "Coffee Beans - Colombian       50 lbs    $8.50     $425.00" -> "coffee beans - colombian       50 lbs    $8.50     $425.00"
      [] line = "Coffee Beans - French Roast    30 lbs    $9.00     $270.00" -> "coffee beans - french roast    30 lbs    $9.00     $270.00"
      [] line = "Paper Cups - 12oz            1000 pcs    $0.15     $150.00" -> "paper cups - 12oz            1000 pcs    $0.15     $150.00"
      [] line = "Paper Cups - 16oz             500 pcs    $0.20     $100.00" -> "paper cups - 16oz             500 pcs    $0.20     $100.00"
      [] line = "Coffee Filters - Size 4       200 pcs    $0.05      $10.00" -> "coffee filters - size 4       200 pcs    $0.05      $10.00"
      [] line = "                               Subtotal:           $955.00" -> "                               subtotal:           $955.00"
      [] line = "                               Tax (6.25%):         $59.69" -> "                               tax (6.25%):         $59.69"
      [] line = "                               Total:            $1,014.69" -> "                               total:            $1,014.69"
      [] line = "Payment Terms: Net 30" -> "payment terms: net 30"
      [] line = "Payment Method: Check or ACH Transfer" -> "payment method: check or ach transfer"
      [] line = "Thank you for your business!" -> "thank you for your business!"
      [] line = "Total: $1,014.69" -> "total: $1,014.69"
      [] line = "[{\"invoice\": \"INV-1\", \"tax\": \"$2.00\", \"total amount\": \"$5.00\"}]" -> "[{\"invoice\": \"inv-1\", \"tax\": \"$2.00\", \"total amount\": \"$5.00\"}]"
      [] line = "--- Page 1 ---" -> "--- page 1 ---"
      [] line = "Receipt" -> "receipt"
      [] line = "[OCR Error: tesseract is not installed or it's not in your PATH]" -> "[ocr error: tesseract is not installed or it's not in your path]"
      [] line = "[PDF Processing Error: Required libraries not available]" -> "[pdf processing error: required libraries not available]"
      [] line = "[Unsupported file type: .xyz]" -> "[unsupported file type: .xyz]"
      [] line = "[Unsupported file type: ]" -> "[unsupported file type: ]"
      [] line = "[Unsupported file type: .$5]" -> "[unsupported file type: .$5]"
      [] line = "[OCR libraries not available]" -> "[ocr libraries not available]"
      [] OTHER -> line

\* str.strip() on a line
StripLine(line) ==
    CASE line = " Receipt" -> "Receipt"
      [] line = "                               Subtotal:           $955.00" -> "Subtotal:           $955.00"
      [] line = "                               Tax (6.25%):         $59.69" -> "Tax (6.25%):         $59.69"
      [] line = "                               Total:            $1,014.69" -> "Total:            $1,014.69"
      [] OTHER -> line

\* the lines whose first character is '['
BracketLines ==
    {"[draft] INVOICE",
     "[Text Read Error: 'utf-8' codec can't decode byte 0xff in position 0: invalid start byte]",
     "[{\"invoice\": \"INV-1\", \"tax\": \"$2.00\", \"total amount\": \"$5.00\"}]",
     "[OCR Error: tesseract is not installed or it's not in your PATH]",
     "[PDF Processing Error: Required libraries not available]",
     "[Unsupported file type: .xyz]",
     "[Unsupported file type: ]",
     "[Unsupported file type: .$5]",
     "[OCR libraries not available]"}

\* needle in line, for the needles the processor looks for
NeedlesIn(line) ==
    CASE line = "[draft] invoice" -> {"invoice"}
      [] line = "due date: soon" -> {"due date"}
      [] line = "invoice" -> {"invoice"}
      [] line = "tax" -> {"tax"}
      [] line = "total: $4.25" -> {"total"}
      [] line = "cash receipt" -> {"receipt", "cash"}
      [] line = "thank you" -> {"thank you"}
      [] line = "balance" -> {"balance"}
      [] line = "deposit" -> {"deposit"}
      [] line = "check" -> {"check"}
      [] line = "pay to: abc coffee" -> {"pay to"}
      [] line = "daily sales" -> {"daily sales"}
      [] line = "units sold" -> {"units"}
      [] line = " receipt" -> {"receipt"}
      [] line = "total $9" -> {"total"}
      [] line = "total amount" -> {"total amount", "total"}
      [] line = "credit card" -> {"credit", "credit card"}
      [] line = "total" -> {"total"}
      [] line = "vendor invoice" -> {"invoice"}
      [] line = "invoice #: inv-2024-001" -> {"invoice"}
      [] line = "due date: february 14, 2024" -> {"due date"}
      [] line = "bill to:" -> {"bill to"}
      [] line = "description                    qty    unit price    total" -> {"total"}
      [] line = "                               subtotal:           $955.00" -> {"subtotal", "total"}
      [] line = "                               tax (6.25%):         $59.69" -> {"tax"}
      [] line = "                               total:            $1,014.69" -> {"total"}
      [] line = "payment method: check or ach transfer" -> {"check"}
      [] line = "thank you for your business!" -> {"thank you"}
      [] line = "total: $1,014.69" -> {"total"}
      [] line = "[{\"invoice\": \"inv-1\", \"tax\": \"$2.00\", \"total amount\": \"$5.00\"}]" -> {"invoice", "tax", "total amount", "total"}
      [] line = "receipt" -> {"receipt"}
      [] OTHER -> {}

InvoiceKeywords ==
    {"invoice", "bill to", "due date", "subtotal", "tax", "total amount"}

BankKeywords ==
    {"bank statement", "balance", "deposit", "debit", "credit", "account"}

CheckKeywords ==
    {"check", "pay to", "dollars", "routing number"}

SalesKeywords ==
    {"sales report", "daily sales", "units", "payment methods"}

ReceiptKeywords ==
    {"receipt", "total", "cash", "credit card", "thank you"}


TextLower(text) == [n \in 1..Len(text) |-> LowerLine(text[n])]

\* needle in text
Contains(needle, text) == \E n \in 1..Len(text) : needle \in NeedlesIn(text[n])

\* text.startswith('[')
StartsWithBracket(text) == Len(text) > 0 /\ text[1] \in BracketLines

\* text.strip(): the lines drawn carry no outer whitespace of their own, so
\* what goes is the empty lines at both ends
RECURSIVE Strip(_)
Strip(text) ==
    IF text = <<>> THEN <<>>
    ELSE IF text[1] = "" THEN Strip(Tail(text))
    ELSE IF text[Len(text)] = "" THEN Strip(SubSeq(text, 1, Len(text) - 1))
    ELSE text

\* text1 + text2, for texts that end with a newline or are empty
TextConcat(text1, text2) ==
    IF text1 = <<>> THEN text2
    ELSE IF text2 = <<>> THEN text1
    ELSE SubSeq(text1, 1, Len(text1) - 1) \o text2

RECURSIVE SumSeq(_)
SumSeq(numbers) ==
    IF numbers = <<>> THEN 0 ELSE Head(numbers) + SumSeq(Tail(numbers))

RECURSIVE FracSum(_)
FracSum(fractions) ==
    IF fractions = <<>> THEN Frac(0, 1)
    ELSE FracAdd(Head(fractions), FracSum(Tail(fractions)))

EmptyDict == <<>>

\* ------------------------------------------------------- text extraction
TextFileConfidence == 100
PdfDirectConfidence == 95

ExtractTextFileContent(file) ==
    IF file.read.raised = None
    THEN [text |-> file.read.text,
          confidence |-> Frac(TextFileConfidence, 1),
          method |-> "direct_text_read"]
    ELSE [text |-> <<"[Text Read Error: " \o file.read.raised \o "]">>,
          confidence |-> Frac(0, 1),
          method |-> "error"]

\* image is what opening and reading the picture gives: an exception, or the
\* text and the per-token confidences of tesseract
ExtractImageTextOcr(image) ==
    IF "pytesseract" \notin libraries \/ "PIL" \notin libraries
    THEN [text |-> <<"[OCR libraries not available]">>,
          confidence |-> Frac(0, 1), method |-> "error"]
    ELSE IF image.raised # None
    THEN [text |-> <<"[OCR Error: " \o image.raised \o "]">>,
          confidence |-> Frac(0, 1), method |-> "error"]
    ELSE IF "pytesseract" \in libraries
    THEN LET confidences == SelectSeq(image.conf, LAMBDA conf : conf > 0)
             avg_confidence ==
                 IF confidences # <<>>
                 THEN Frac(SumSeq(confidences), Len(confidences))
                 ELSE Frac(0, 1)
         IN [text |-> Strip(image.text),
             confidence |-> avg_confidence,
             method |-> "tesseract_ocr"]
    ELSE [text |-> <<"[Tesseract OCR not available]">>,
          confidence |-> Frac(0, 1), method |-> "error"]

\* f"--- Page {i+1} ---\n{result['text']}"
PageText(page_number, text) ==
    <<"--- Page " \o ToString(page_number) \o " ---">>
        \o (IF text = <<>> THEN <<"">> ELSE text)

\* '\n\n'.join(extracted_texts)
RECURSIVE JoinPages(_)
JoinPages(extracted_texts) ==
    IF extracted_texts = <<>> THEN <<>>
    ELSE IF Len(extracted_texts) = 1 THEN extracted_texts[1]
    ELSE extracted_texts[1] \o <<"">> \o JoinPages(Tail(extracted_texts))

RECURSIVE ConcatPages(_)
ConcatPages(page_texts) ==
    IF page_texts = <<>> THEN <<>>
    ELSE TextConcat(Head(page_texts), ConcatPages(Tail(page_texts)))

\* the OCR fallback wrapping every page result whatever its method
PdfOcrResult(file) ==
    LET page_results == [i \in 1..Len(file.raster.pages) |->
                        ExtractImageTextOcr(file.raster.pages[i])]
        extracted_texts == [i \in 1..Len(page_results) |-> PageText(i, page_results[i].text)]
        confidences == [i \in 1..Len(page_results) |-> page_results[i].confidence]
        avg_confidence ==
            IF confidences # <<>>
            THEN FracMul(FracSum(confidences), Frac(1, Len(confidences)))
            ELSE Frac(0, 1)
    IN [text |-> JoinPages(extracted_texts),
        confidence |-> avg_confidence,
        method |-> "pdf_to_image_ocr"]

ExtractPdfTextAdvanced(file) ==
    LET text == ConcatPages(file.layer.pages)
        direct == /\ "PyPDF2" \in libraries
                  /\ ~file.layer.raised
                  /\ Strip(text) # <<>>
    IN  IF direct
        THEN [text |-> text,
              confidence |-> Frac(PdfDirectConfidence, 1),
              method |-> "pdf_direct_extraction"]
        ELSE IF /\ "pdf2image" \in libraries
                /\ "pytesseract" \in libraries
                /\ ~file.raster.raised
        THEN PdfOcrResult(file)
        ELSE [text |-> <<"[PDF Processing Error: Required libraries not available]">>,
              confidence |-> Frac(0, 1),
              method |-> "error"]

\* the unsupported branch answering without the bracket
UnsupportedUnbracketed(extension) ==
    [text |-> <<"Unsupported file type: " \o extension>>,
     confidence |-> Frac(0, 1),
     method |-> "unsupported"]

UnsupportedResult(extension) ==
    [text |-> <<"[Unsupported file type: " \o extension \o "]">>,
     confidence |-> Frac(0, 1),
     method |-> "unsupported"]

\* the dispatch on the suffix as written, without .lower()
ExtractTextCaseSensitive(file) ==
    LET extension == file.suffix
    IN  IF extension \in ImageExtensions
        THEN ExtractImageTextOcr(file.raster.pages[1])
        ELSE IF extension \in PdfExtensions THEN ExtractPdfTextAdvanced(file)
        ELSE IF extension \in TextExtensions THEN ExtractTextFileContent(file)
        ELSE UnsupportedResult(extension)

ExtractTextAdvanced(file) ==
    LET extension == SuffixLower(file.suffix)
    IN  IF extension \in ImageExtensions
        THEN ExtractImageTextOcr(file.raster.pages[1])
        ELSE IF extension \in PdfExtensions THEN ExtractPdfTextAdvanced(file)
        ELSE IF extension \in TextExtensions THEN ExtractTextFileContent(file)
        ELSE UnsupportedResult(extension)

\* --------------------------------------------------------- classification
KeywordThreshold == 2

KeywordCount(keywords, text_lower) ==
    Cardinality({keyword \in keywords : Contains(keyword, text_lower)})

\* the class with the most keywords instead of the first in order
ClassifyByHighestCount(text) ==
    IF text = <<>> \/ StartsWithBracket(text) THEN "unknown"
    ELSE LET text_lower == TextLower(text)
             classes == <<[class |-> "invoice", keywords |-> InvoiceKeywords],
                          [class |-> "bank_statement", keywords |-> BankKeywords],
                          [class |-> "check", keywords |-> CheckKeywords],
                          [class |-> "sales_report", keywords |-> SalesKeywords],
                          [class |-> "receipt", keywords |-> ReceiptKeywords]>>
             best == CHOOSE n \in 1..5 :
                        \A m \in 1..5 :
                            \/ KeywordCount(classes[m].keywords, text_lower)
                                 < KeywordCount(classes[n].keywords, text_lower)
                            \/ /\ KeywordCount(classes[m].keywords, text_lower)
                                    = KeywordCount(classes[n].keywords, text_lower)
                               /\ n <= m
         IN IF KeywordCount(classes[best].keywords, text_lower) >= KeywordThreshold
            THEN classes[best].class
            ELSE "general_document"

ClassifyDocumentAdvanced(text) ==
    IF text = <<>> \/ StartsWithBracket(text) THEN "unknown"
    ELSE LET text_lower == TextLower(text)
         IN IF KeywordCount(InvoiceKeywords, text_lower) >= KeywordThreshold
            THEN "invoice"
            ELSE IF KeywordCount(BankKeywords, text_lower) >= KeywordThreshold
            THEN "bank_statement"
            ELSE IF KeywordCount(CheckKeywords, text_lower) >= KeywordThreshold
            THEN "check"
            ELSE IF KeywordCount(SalesKeywords, text_lower) >= KeywordThreshold
            THEN "sales_report"
            ELSE IF KeywordCount(ReceiptKeywords, text_lower) >= KeywordThreshold
            THEN "receipt"
            ELSE "general_document"

\* ------------------------------------------------ fields and financial data
\* re.search(pattern, text, re.IGNORECASE): group 1 (stripped where the code
\* strips it), None without a match
ReSearch(pattern, text) ==
    CASE pattern = "invoice_number" /\ text = <<"[draft] INVOICE", "Due Date: soon">> -> "Due"
      [] pattern = "due_date" /\ text = <<"[draft] INVOICE", "Due Date: soon">> -> "soon"
      [] pattern = "invoice_number" /\ text = <<"Invoice", "Tax", "Total: $4.25", "Cash receipt", "Thank you">> -> "Tax"
      [] pattern = "total" /\ text = <<"Invoice", "Tax", "Total: $4.25", "Cash receipt", "Thank you">> -> "4.25"
      [] pattern = "pay_to" /\ text = <<"Check", "Pay to: ABC Coffee">> -> "ABC Coffee"
      [] pattern = "total" /\ text = <<"Total $9">> -> "9"
      [] pattern = "invoice_number" /\ text = <<"", "VENDOR INVOICE", "", "Invoice #: INV-2024-001", "Date: January 15, 2024", "Due Date: February 14, 2024", "", "Bill To:", "Dunkin' Donuts Franchise", "123 Main Street", "Boston, MA 02101", "", "From:", "ABC Coffee Supplies Inc.", "456 Supply Avenue", "Cambridge, MA 02139", "Phone: (617) 555-0123", "Email: billing@abccoffee.com", "", "Description                    Qty    Unit Price    Total", "Coffee Beans - Colombian       50 lbs    $8.50     $425.00", "Coffee Beans - French Roast    30 lbs    $9.00     $270.00", "Paper Cups - 12oz            1000 pcs    $0.15     $150.00", "Paper Cups - 16oz             500 pcs    $0.20     $100.00", "Coffee Filters - Size 4       200 pcs    $0.05      $10.00", "", "                               Subtotal:           $955.00", "                               Tax (6.25%):         $59.69", "                               Total:            $1,014.69", "", "Payment Terms: Net 30", "Payment Method: Check or ACH Transfer", "", "Thank you for your business!", "">> -> "Invoice"
      [] pattern = "vendor_name" /\ text = <<"", "VENDOR INVOICE", "", "Invoice #: INV-2024-001", "Date: January 15, 2024", "Due Date: February 14, 2024", "", "Bill To:", "Dunkin' Donuts Franchise", "123 Main Street", "Boston, MA 02101", "", "From:", "ABC Coffee Supplies Inc.", "456 Supply Avenue", "Cambridge, MA 02139", "Phone: (617) 555-0123", "Email: billing@abccoffee.com", "", "Description                    Qty    Unit Price    Total", "Coffee Beans - Colombian       50 lbs    $8.50     $425.00", "Coffee Beans - French Roast    30 lbs    $9.00     $270.00", "Paper Cups - 12oz            1000 pcs    $0.15     $150.00", "Paper Cups - 16oz             500 pcs    $0.20     $100.00", "Coffee Filters - Size 4       200 pcs    $0.05      $10.00", "", "                               Subtotal:           $955.00", "                               Tax (6.25%):         $59.69", "                               Total:            $1,014.69", "", "Payment Terms: Net 30", "Payment Method: Check or ACH Transfer", "", "Thank you for your business!", "">> -> "ABC Coffee Supplies Inc."
      [] pattern = "due_date" /\ text = <<"", "VENDOR INVOICE", "", "Invoice #: INV-2024-001", "Date: January 15, 2024", "Due Date: February 14, 2024", "", "Bill To:", "Dunkin' Donuts Franchise", "123 Main Street", "Boston, MA 02101", "", "From:", "ABC Coffee Supplies Inc.", "456 Supply Avenue", "Cambridge, MA 02139", "Phone: (617) 555-0123", "Email: billing@abccoffee.com", "", "Description                    Qty    Unit Price    Total", "Coffee Beans - Colombian       50 lbs    $8.50     $425.00", "Coffee Beans - French Roast    30 lbs    $9.00     $270.00", "Paper Cups - 12oz            1000 pcs    $0.15     $150.00", "Paper Cups - 16oz             500 pcs    $0.20     $100.00", "Coffee Filters - Size 4       200 pcs    $0.05      $10.00", "", "                               Subtotal:           $955.00", "                               Tax (6.25%):         $59.69", "                               Total:            $1,014.69", "", "Payment Terms: Net 30", "Payment Method: Check or ACH Transfer", "", "Thank you for your business!", "">> -> "February 14, 2024"
      [] pattern = "total" /\ text = <<"", "VENDOR INVOICE", "", "Invoice #: INV-2024-001", "Date: January 15, 2024", "Due Date: February 14, 2024", "", "Bill To:", "Dunkin' Donuts Franchise", "123 Main Street", "Boston, MA 02101", "", "From:", "ABC Coffee Supplies Inc.", "456 Supply Avenue", "Cambridge, MA 02139", "Phone: (617) 555-0123", "Email: billing@abccoffee.com", "", "Description                    Qty    Unit Price    Total", "Coffee Beans - Colombian       50 lbs    $8.50     $425.00", "Coffee Beans - French Roast    30 lbs    $9.00     $270.00", "Paper Cups - 12oz            1000 pcs    $0.15     $150.00", "Paper Cups - 16oz             500 pcs    $0.20     $100.00", "Coffee Filters - Size 4       200 pcs    $0.05      $10.00", "", "                               Subtotal:           $955.00", "                               Tax (6.25%):         $59.69", "                               Total:            $1,014.69", "", "Payment Terms: Net 30", "Payment Method: Check or ACH Transfer", "", "Thank you for your business!", "">> -> "955.00"
      [] pattern = "invoice_number" /\ text = <<"Invoice #: INV-2024-001", "Total: $1,014.69", "Due Date: February 14, 2024">> -> "INV-2024-001"
      [] pattern = "due_date" /\ text = <<"Invoice #: INV-2024-001", "Total: $1,014.69", "Due Date: February 14, 2024">> -> "February 14, 2024"
      [] pattern = "total" /\ text = <<"Invoice #: INV-2024-001", "Total: $1,014.69", "Due Date: February 14, 2024">> -> "1,014.69"
      [] OTHER -> None

\* re.findall(pattern, text)
ReFindall(pattern, text) ==
    CASE pattern = "amounts" /\ text = <<"Invoice", "Tax", "Total: $4.25", "Cash receipt", "Thank you">> -> <<"$4.25">>
      [] pattern = "amounts" /\ text = <<"Total $9">> -> <<"$9">>
      [] pattern = "amounts" /\ text = <<"", "VENDOR INVOICE", "", "Invoice #: INV-2024-001", "Date: January 15, 2024", "Due Date: February 14, 2024", "", "Bill To:", "Dunkin' Donuts Franchise", "123 Main Street", "Boston, MA 02101", "", "From:", "ABC Coffee Supplies Inc.", "456 Supply Avenue", "Cambridge, MA 02139", "Phone: (617) 555-0123", "Email: billing@abccoffee.com", "", "Description                    Qty    Unit Price    Total", "Coffee Beans - Colombian       50 lbs    $8.50     $425.00", "Coffee Beans - French Roast    30 lbs    $9.00     $270.00", "Paper Cups - 12oz            1000 pcs    $0.15     $150.00", "Paper Cups - 16oz             500 pcs    $0.20     $100.00", "Coffee Filters - Size 4       200 pcs    $0.05      $10.00", "", "                               Subtotal:           $955.00", "                               Tax (6.25%):         $59.69", "                               Total:            $1,014.69", "", "Payment Terms: Net 30", "Payment Method: Check or ACH Transfer", "", "Thank you for your business!", "">> -> <<"$8.50", "$425.00", "$9.00", "$270.00", "$0.15", "$150.00", "$0.20", "$100.00", "$0.05", "$10.00", "$955.00", "$59.69", "$1,014.69">>
      [] pattern = "dates" /\ text = <<"", "VENDOR INVOICE", "", "Invoice #: INV-2024-001", "Date: January 15, 2024", "Due Date: February 14, 2024", "", "Bill To:", "Dunkin' Donuts Franchise", "123 Main Street", "Boston, MA 02101", "", "From:", "ABC Coffee Supplies Inc.", "456 Supply Avenue", "Cambridge, MA 02139", "Phone: (617) 555-0123", "Email: billing@abccoffee.com", "", "Description                    Qty    Unit Price    Total", "Coffee Beans - Colombian       50 lbs    $8.50     $425.00", "Coffee Beans - French Roast    30 lbs    $9.00     $270.00", "Paper Cups - 12oz            1000 pcs    $0.15     $150.00", "Paper Cups - 16oz             500 pcs    $0.20     $100.00", "Coffee Filters - Size 4       200 pcs    $0.05      $10.00", "", "                               Subtotal:           $955.00", "                               Tax (6.25%):         $59.69", "                               Total:            $1,014.69", "", "Payment Terms: Net 30", "Payment Method: Check or ACH Transfer", "", "Thank you for your business!", "">> -> <<"January 15, 2024", "February 14, 2024">>
      [] pattern = "amounts" /\ text = <<"Invoice #: INV-2024-001", "Total: $1,014.69", "Due Date: February 14, 2024">> -> <<"$1,014.69">>
      [] pattern = "dates" /\ text = <<"Invoice #: INV-2024-001", "Total: $1,014.69", "Due Date: February 14, 2024">> -> <<"February 14, 2024">>
      [] pattern = "amounts" /\ text = <<"[{\"invoice\": \"INV-1\", \"tax\": \"$2.00\", \"total amount\": \"$5.00\"}]">> -> <<"$2.00", "$5.00">>
      [] pattern = "amounts" /\ text = <<"[Unsupported file type: .$5]">> -> <<"$5">>
      [] OTHER -> <<>>

\* 'total' in text.lower()[find(amount) - 20 : find(amount) + 20]
TotalNear(text, amount) ==
    CASE amount = "$9" /\ text = <<"Total $9">> -> TRUE
      [] amount = "$955.00" /\ text = <<"", "VENDOR INVOICE", "", "Invoice #: INV-2024-001", "Date: January 15, 2024", "Due Date: February 14, 2024", "", "Bill To:", "Dunkin' Donuts Franchise", "123 Main Street", "Boston, MA 02101", "", "From:", "ABC Coffee Supplies Inc.", "456 Supply Avenue", "Cambridge, MA 02139", "Phone: (617) 555-0123", "Email: billing@abccoffee.com", "", "Description                    Qty    Unit Price    Total", "Coffee Beans - Colombian       50 lbs    $8.50     $425.00", "Coffee Beans - French Roast    30 lbs    $9.00     $270.00", "Paper Cups - 12oz            1000 pcs    $0.15     $150.00", "Paper Cups - 16oz             500 pcs    $0.20     $100.00", "Coffee Filters - Size 4       200 pcs    $0.05      $10.00", "", "                               Subtotal:           $955.00", "                               Tax (6.25%):         $59.69", "                               Total:            $1,014.69", "", "Payment Terms: Net 30", "Payment Method: Check or ACH Transfer", "", "Thank you for your business!", "">> -> TRUE
      [] amount = "$1,014.69" /\ text = <<"", "VENDOR INVOICE", "", "Invoice #: INV-2024-001", "Date: January 15, 2024", "Due Date: February 14, 2024", "", "Bill To:", "Dunkin' Donuts Franchise", "123 Main Street", "Boston, MA 02101", "", "From:", "ABC Coffee Supplies Inc.", "456 Supply Avenue", "Cambridge, MA 02139", "Phone: (617) 555-0123", "Email: billing@abccoffee.com", "", "Description                    Qty    Unit Price    Total", "Coffee Beans - Colombian       50 lbs    $8.50     $425.00", "Coffee Beans - French Roast    30 lbs    $9.00     $270.00", "Paper Cups - 12oz            1000 pcs    $0.15     $150.00", "Paper Cups - 16oz             500 pcs    $0.20     $100.00", "Coffee Filters - Size 4       200 pcs    $0.05      $10.00", "", "                               Subtotal:           $955.00", "                               Tax (6.25%):         $59.69", "                               Total:            $1,014.69", "", "Payment Terms: Net 30", "Payment Method: Check or ACH Transfer", "", "Thank you for your business!", "">> -> TRUE
      [] amount = "$1,014.69" /\ text = <<"Invoice #: INV-2024-001", "Total: $1,014.69", "Due Date: February 14, 2024">> -> TRUE
      [] amount = "$2.00" /\ text = <<"[{\"invoice\": \"INV-1\", \"tax\": \"$2.00\", \"total amount\": \"$5.00\"}]">> -> TRUE
      [] amount = "$5.00" /\ text = <<"[{\"invoice\": \"INV-1\", \"tax\": \"$2.00\", \"total amount\": \"$5.00\"}]">> -> TRUE
      [] OTHER -> FALSE

\* fields[key] = group 1 of the pattern, when it matches
Field(key, pattern, text) ==
    IF ReSearch(pattern, text) # None THEN key :> ReSearch(pattern, text)
    ELSE EmptyDict

ExtractInvoiceFields(text) ==
    Field("invoice_number", "invoice_number", text)
        @@ Field("vendor_name", "vendor_name", text)
        @@ Field("due_date", "due_date", text)
        @@ Field("total_amount", "total", text)

ExtractBankStatementFields(text) ==
    Field("balance", "balance", text)
        @@ Field("account_number", "account_number", text)

ExtractCheckFields(text) ==
    Field("check_number", "check_number", text)
        @@ Field("pay_to", "pay_to", text)
        @@ Field("amount", "amount", text)

ExtractSalesReportFields(text) ==
    Field("location", "location", text)
        @@ Field("total_sales", "total", text)

ExtractReceiptFields(text) ==
    LET text_lower == TextLower(text)
    IN  ("merchant_name" :> (IF text = <<>> THEN "" ELSE StripLine(text[1])))
        @@ Field("total_amount", "total", text)
        @@ (IF Contains("cash", text_lower) THEN "payment_method" :> "Cash"
            ELSE IF Contains("credit", text_lower)
            THEN "payment_method" :> "Credit Card"
            ELSE IF Contains("debit", text_lower)
            THEN "payment_method" :> "Debit Card"
            ELSE EmptyDict)

ExtractStructuredFields(text, doc_type) ==
    CASE doc_type = "invoice" -> ExtractInvoiceFields(text)
      [] doc_type = "bank_statement" -> ExtractBankStatementFields(text)
      [] doc_type = "check" -> ExtractCheckFields(text)
      [] doc_type = "sales_report" -> ExtractSalesReportFields(text)
      [] doc_type = "receipt" -> ExtractReceiptFields(text)
      [] OTHER -> EmptyDict

\* the last amount with 'total' near it, None when there is none
RECURSIVE MainTotal(_, _, _)
MainTotal(text, amounts, n) ==
    IF n = 0 THEN None
    ELSE IF TotalNear(text, amounts[n]) THEN amounts[n]
    ELSE MainTotal(text, amounts, n - 1)

ExtractFinancialData(text) ==
    IF text = <<>> \/ StartsWithBracket(text) THEN EmptyDict
    ELSE LET amounts == ReFindall("amounts", text)
             dates == ReFindall("dates", text)
             account_numbers == ReFindall("account_numbers", text)
             main_total == MainTotal(text, amounts, Len(amounts))
         IN (IF amounts # <<>>
             THEN ("amounts_found" :> amounts)
                    @@ ("total_amounts" :> ToString(Len(amounts)))
                    @@ (IF main_total # None THEN "main_total" :> main_total
                        ELSE EmptyDict)
             ELSE EmptyDict)
            @@ (IF dates # <<>> THEN "dates_found" :> dates ELSE EmptyDict)
            @@ (IF account_numbers # <<>>
                THEN "account_numbers" :> account_numbers ELSE EmptyDict)

\* ------------------------------------------------------- process_document
\* processing_time is a difference of clock readings and is left out; nothing
\* in the try block raises on the files drawn, so the except branch is not
\* taken
\* process_document with a classifier that remembers: a text reaching no class
\* takes the class of the document before it
ProcessDocumentSticky(file) ==
    LET extraction_result == ExtractTextAdvanced(file)
        classified == ClassifyDocumentAdvanced(extraction_result.text)
        doc_type == IF classified = "general_document" /\ documents # <<>>
                    THEN documents[Len(documents)].returned.document_type
                    ELSE classified
        fields == ExtractStructuredFields(extraction_result.text, doc_type)
        financial_data == ExtractFinancialData(extraction_result.text)
    IN [document_type |-> doc_type,
        confidence_score |-> extraction_result.confidence,
        extracted_fields |-> fields,
        file_size |-> file.size,
        extraction_method |-> extraction_result.method,
        text_content |-> extraction_result.text,
        financial_data |-> financial_data,
        processing_status |-> "success"]

ProcessDocument(file) ==
    LET extraction_result == ExtractTextAdvanced(file)
        doc_type == ClassifyDocumentAdvanced(extraction_result.text)
        fields == ExtractStructuredFields(extraction_result.text, doc_type)
        financial_data == ExtractFinancialData(extraction_result.text)
    IN [document_type |-> doc_type,
        confidence_score |-> extraction_result.confidence,
        extracted_fields |-> fields,
        file_size |-> file.size,
        extraction_method |-> extraction_result.method,
        text_content |-> extraction_result.text,
        financial_data |-> financial_data,
        processing_status |-> "success"]

MaxDocs == 3

\* the files process_document is applied to
Files ==
    {[name |-> "empty.txt", suffix |-> ".txt", size |-> 0,
      read |-> [raised |-> None, text |-> <<>>],
      layer |-> [raised |-> FALSE, pages |-> <<>>],
      raster |-> [raised |-> FALSE, pages |-> <<>>]],
     [name |-> "draft.TXT", suffix |-> ".TXT", size |-> 30,
      read |-> [raised |-> None, text |-> <<"[draft] INVOICE", "Due Date: soon">>],
      layer |-> [raised |-> FALSE, pages |-> <<>>],
      raster |-> [raised |-> FALSE, pages |-> <<>>]],
     [name |-> "mixed.txt", suffix |-> ".txt", size |-> 47,
      read |-> [raised |-> None, text |-> <<"Invoice", "Tax", "Total: $4.25", "Cash receipt", "Thank you">>],
      layer |-> [raised |-> FALSE, pages |-> <<>>],
      raster |-> [raised |-> FALSE, pages |-> <<>>]],
     [name |-> "statement.CSV", suffix |-> ".CSV", size |-> 15,
      read |-> [raised |-> None, text |-> <<"Balance", "Deposit">>],
      layer |-> [raised |-> FALSE, pages |-> <<>>],
      raster |-> [raised |-> FALSE, pages |-> <<>>]],
     [name |-> "check.json", suffix |-> ".json", size |-> 24,
      read |-> [raised |-> None, text |-> <<"Check", "Pay to: ABC Coffee">>],
      layer |-> [raised |-> FALSE, pages |-> <<>>],
      raster |-> [raised |-> FALSE, pages |-> <<>>]],
     [name |-> "sales.txt", suffix |-> ".txt", size |-> 22,
      read |-> [raised |-> None, text |-> <<"Daily Sales", "Units sold">>],
      layer |-> [raised |-> FALSE, pages |-> <<>>],
      raster |-> [raised |-> FALSE, pages |-> <<>>]],
     [name |-> "receipt.csv", suffix |-> ".csv", size |-> 18,
      read |-> [raised |-> None, text |-> <<" Receipt", "Thank you">>],
      layer |-> [raised |-> FALSE, pages |-> <<>>],
      raster |-> [raised |-> FALSE, pages |-> <<>>]],
     [name |-> "notes.txt", suffix |-> ".txt", size |-> 8,
      read |-> [raised |-> None, text |-> <<"Total $9">>],
      layer |-> [raised |-> FALSE, pages |-> <<>>],
      raster |-> [raised |-> FALSE, pages |-> <<>>]],
     [name |-> "total.Json", suffix |-> ".Json", size |-> 12,
      read |-> [raised |-> None, text |-> <<"Total Amount">>],
      layer |-> [raised |-> FALSE, pages |-> <<>>],
      raster |-> [raised |-> FALSE, pages |-> <<>>]],
     [name |-> "card.txt", suffix |-> ".txt", size |-> 17,
      read |-> [raised |-> None, text |-> <<"Credit card", "Total">>],
      layer |-> [raised |-> FALSE, pages |-> <<>>],
      raster |-> [raised |-> FALSE, pages |-> <<>>]],
     [name |-> "binary.txt", suffix |-> ".txt", size |-> 2,
      read |-> [raised |-> "'utf-8' codec can't decode byte 0xff in position 0: invalid start byte", text |-> <<>>],
      layer |-> [raised |-> FALSE, pages |-> <<>>],
      raster |-> [raised |-> FALSE, pages |-> <<>>]],
     [name |-> "sample_invoice_abc_coffee_20240115.txt", suffix |-> ".txt", size |-> 904,
      read |-> [raised |-> None, text |-> <<"", "VENDOR INVOICE", "", "Invoice #: INV-2024-001", "Date: January 15, 2024", "Due Date: February 14, 2024", "", "Bill To:", "Dunkin' Donuts Franchise", "123 Main Street", "Boston, MA 02101", "", "From:", "ABC Coffee Supplies Inc.", "456 Supply Avenue", "Cambridge, MA 02139", "Phone: (617) 555-0123", "Email: billing@abccoffee.com", "", "Description                    Qty    Unit Price    Total", "Coffee Beans - Colombian       50 lbs    $8.50     $425.00", "Coffee Beans - French Roast    30 lbs    $9.00     $270.00", "Paper Cups - 12oz            1000 pcs    $0.15     $150.00", "Paper Cups - 16oz             500 pcs    $0.20     $100.00", "Coffee Filters - Size 4       200 pcs    $0.05      $10.00", "", "                               Subtotal:           $955.00", "                               Tax (6.25%):         $59.69", "                               Total:            $1,014.69", "", "Payment Terms: Net 30", "Payment Method: Check or ACH Transfer", "", "Thank you for your business!", "">>],
      layer |-> [raised |-> FALSE, pages |-> <<>>],
      raster |-> [raised |-> FALSE, pages |-> <<>>]],
     [name |-> "invoice3.txt", suffix |-> ".txt", size |-> 68,
      read |-> [raised |-> None, text |-> <<"Invoice #: INV-2024-001", "Total: $1,014.69", "Due Date: February 14, 2024">>],
      layer |-> [raised |-> FALSE, pages |-> <<>>],
      raster |-> [raised |-> FALSE, pages |-> <<>>]],
     [name |-> "array.json", suffix |-> ".json", size |-> 63,
      read |-> [raised |-> None, text |-> <<"[{\"invoice\": \"INV-1\", \"tax\": \"$2.00\", \"total amount\": \"$5.00\"}]">>],
      layer |-> [raised |-> FALSE, pages |-> <<>>],
      raster |-> [raised |-> FALSE, pages |-> <<>>]],
     [name |-> "statement.pdf", suffix |-> ".pdf", size |-> 1,
      read |-> [raised |-> None, text |-> <<>>],
      layer |-> [raised |-> FALSE, pages |-> <<<<"Balance", "Deposit", "">>>>],
      raster |-> [raised |-> FALSE, pages |-> <<[raised |-> None, text |-> <<"Receipt", "Thank you", "">>, conf |-> <<96, 90, -1>>]>>]],
     [name |-> "scan.PDF", suffix |-> ".PDF", size |-> 1,
      read |-> [raised |-> None, text |-> <<>>],
      layer |-> [raised |-> FALSE, pages |-> <<<<>>>>],
      raster |-> [raised |-> FALSE, pages |-> <<[raised |-> None, text |-> <<"Receipt", "Thank you", "">>, conf |-> <<96, 90, -1>>]>>]],
     [name |-> "badscan.pdf", suffix |-> ".pdf", size |-> 1,
      read |-> [raised |-> None, text |-> <<>>],
      layer |-> [raised |-> FALSE, pages |-> <<<<>>>>],
      raster |-> [raised |-> FALSE, pages |-> <<[raised |-> "tesseract is not installed or it's not in your PATH", text |-> <<>>, conf |-> <<>>]>>]],
     [name |-> "broken.pdf", suffix |-> ".pdf", size |-> 1,
      read |-> [raised |-> None, text |-> <<>>],
      layer |-> [raised |-> TRUE, pages |-> <<>>],
      raster |-> [raised |-> TRUE, pages |-> <<>>]],
     [name |-> "blank.pdf", suffix |-> ".pdf", size |-> 1,
      read |-> [raised |-> None, text |-> <<>>],
      layer |-> [raised |-> FALSE, pages |-> <<>>],
      raster |-> [raised |-> FALSE, pages |-> <<>>]],
     [name |-> "receipt.PNG", suffix |-> ".PNG", size |-> 1,
      read |-> [raised |-> None, text |-> <<>>],
      layer |-> [raised |-> FALSE, pages |-> <<>>],
      raster |-> [raised |-> FALSE, pages |-> <<[raised |-> None, text |-> <<"Receipt", "Thank you", "">>, conf |-> <<96, 90, -1>>]>>]],
     [name |-> "photo.jpg", suffix |-> ".jpg", size |-> 1,
      read |-> [raised |-> None, text |-> <<>>],
      layer |-> [raised |-> FALSE, pages |-> <<>>],
      raster |-> [raised |-> FALSE, pages |-> <<[raised |-> "tesseract is not installed or it's not in your PATH", text |-> <<>>, conf |-> <<>>]>>]],
     [name |-> "blank.tiff", suffix |-> ".tiff", size |-> 1,
      read |-> [raised |-> None, text |-> <<>>],
      layer |-> [raised |-> FALSE, pages |-> <<>>],
      raster |-> [raised |-> FALSE, pages |-> <<[raised |-> None, text |-> <<"", "">>, conf |-> <<-1>>]>>]],
     [name |-> "doc.xyz", suffix |-> ".xyz", size |-> 1,
      read |-> [raised |-> None, text |-> <<>>],
      layer |-> [raised |-> FALSE, pages |-> <<>>],
      raster |-> [raised |-> FALSE, pages |-> <<>>]],
     [name |-> "README", suffix |-> "", size |-> 1,
      read |-> [raised |-> None, text |-> <<>>],
      layer |-> [raised |-> FALSE, pages |-> <<>>],
      raster |-> [raised |-> FALSE, pages |-> <<>>]],
     [name |-> "price.$5", suffix |-> ".$5", size |-> 1,
      read |-> [raised |-> None, text |-> <<>>],
      layer |-> [raised |-> FALSE, pages |-> <<>>],
      raster |-> [raised |-> FALSE, pages |-> <<>>]]}

Installations ==
    {{"PIL", "PyPDF2", "pdf2image", "pytesseract"},
     {"PIL"},
     {"PIL", "PyPDF2"},
     {"PIL", "pdf2image", "pytesseract"}}

ProcessDocumentCall ==
    /\ Len(documents) < MaxDocs
    /\ \E file \in Files :
        documents' = Append(documents,
                            [file |-> file,
                             extraction |-> ExtractTextAdvanced(file),
                             returned |-> ProcessDocument(file)])
    /\ UNCHANGED <<engine, fuzzy_calls, libraries, amount_calls, cash_flow_reports,
                   pipeline, server, monitor>>

\* one DocumentProcessor, under any installation, processing any files
InitDocs ==
    /\ InitIdleEngine
    /\ fuzzy_calls = <<>>
    /\ libraries \in Installations
    /\ documents = <<>>
    /\ amount_calls = <<>>
    /\ cash_flow_reports = <<>>
    /\ pipeline = IdlePipeline
    /\ server = IdleServer
    /\ monitor = IdleMonitor

NextDocs == ProcessDocumentCall

SpecDocs == InitDocs /\ [][NextDocs]_vars

\* --------------------------- the documents table and the processing tasks
\* One server process: a task made by asyncio.create_task starts when the
\* handler that made it has returned, and none of its awaits suspends (the
\* store client is synchronous), so it runs to its end before the next
\* request is served.  Each store request of a task is one step.

MaxRequests == 3

valid_types ==
    {"bank_statement", "credit_card_statement", "vendor_bill",
     "handwritten_note", "sales_report", "check"}

\* the uploads of the model: a CSV statement, a text file sent as a
\* statement, and a file sent with a type the endpoint does not know
UploadedFiles == {"statement.csv", "statement.txt"}

UploadedTypes == {"bank_statement", "auto_detect"}

PathSuffix == ("statement.csv" :> ".csv") @@ ("statement.txt" :> ".txt")

\* BankStatementProcessor.process: a PDF or a CSV is parsed, any other
\* suffix raises
BankProcessorRaises(file_path) == PathSuffix[file_path] \notin {".pdf", ".csv"}

DocumentIds == 1..MaxRequests

NoTaskRunning ==
    \A t \in DOMAIN pipeline.tasks : pipeline.tasks[t].pc \in {"returned", "raised"}

Respond(endpoint, status_code) ==
    Append(pipeline.responses, [endpoint |-> endpoint, status_code |-> status_code])

CreateTask(document_id, file_path, document_type) ==
    Append(pipeline.tasks,
           [document_id |-> document_id, file_path |-> file_path,
            document_type |-> document_type, pc |-> "get_document"])

\* DocumentManager.update_processing_status: an update of the rows with this id
UpdateProcessingStatus(document_id, status) ==
    [d \in DOMAIN pipeline.documents |->
        IF d = document_id
        THEN [pipeline.documents[d] EXCEPT !.processing_status = status]
        ELSE pipeline.documents[d]]

\* POST /documents/upload
UploadDocument ==
    /\ NoTaskRunning
    /\ Len(pipeline.responses) < MaxRequests
    /\ \E filename \in UploadedFiles, document_type \in UploadedTypes :
        IF document_type \notin valid_types
        THEN \* the 400 is caught by the handler's own except clause
             pipeline' = [pipeline EXCEPT !.responses = Respond("upload", 500)]
        ELSE LET id == Len(pipeline.documents) + 1 IN
             pipeline' =
                 [documents |-> Append(pipeline.documents,
                                       [file_path |-> filename,
                                        document_type |-> document_type,
                                        processing_status |-> "pending"]),
                  tasks |-> CreateTask(id, filename, document_type),
                  responses |-> Respond("upload", 200)]
    /\ UNCHANGED <<engine, fuzzy_calls, libraries, documents, amount_calls,
                   cash_flow_reports, server, monitor>>

\* POST /documents/{document_id}/reprocess
ReprocessDocument ==
    /\ NoTaskRunning
    /\ Len(pipeline.responses) < MaxRequests
    /\ \E document_id \in DocumentIds :
        IF document_id \notin DOMAIN pipeline.documents
        THEN \* the 404 is caught by the handler's own except clause
             pipeline' = [pipeline EXCEPT !.responses = Respond("reprocess", 500)]
        ELSE LET document == pipeline.documents[document_id] IN
             pipeline' =
                 [documents |-> UpdateProcessingStatus(document_id, "pending"),
                  tasks |-> CreateTask(document_id, document.file_path,
                                       document.document_type),
                  responses |-> Respond("reprocess", 200)]
    /\ UNCHANGED <<engine, fuzzy_calls, libraries, documents, amount_calls,
                   cash_flow_reports, server, monitor>>

TaskAt(t, at) == t \in DOMAIN pipeline.tasks /\ pipeline.tasks[t].pc = at

TaskGoto(t, to) == [pipeline.tasks EXCEPT ![t].pc = to]

TaskIds == 1..MaxRequests

\* process_document: get_document, and the raise when there is no record
TaskGetDocument(t) ==
    /\ TaskAt(t, "get_document")
    /\ pipeline' =
           [pipeline EXCEPT !.tasks =
               TaskGoto(t, IF pipeline.tasks[t].document_id \in DOMAIN pipeline.documents
                           THEN "set_processing" ELSE "set_failed")]
    /\ UNCHANGED <<engine, fuzzy_calls, libraries, documents, amount_calls,
                   cash_flow_reports, server, monitor>>

\* process_document: update_processing_status(document_id, 'processing')
TaskSetProcessing(t) ==
    /\ TaskAt(t, "set_processing")
    /\ pipeline' =
           [pipeline EXCEPT
               !.documents = UpdateProcessingStatus(pipeline.tasks[t].document_id,
                                                    "processing"),
               !.tasks = TaskGoto(t, "process")]
    /\ UNCHANGED <<engine, fuzzy_calls, libraries, documents, amount_calls,
                   cash_flow_reports, server, monitor>>

\* process_document: the processor of the document type reads the file
TaskProcess(t) ==
    /\ TaskAt(t, "process")
    /\ LET task == pipeline.tasks[t]
           raises == IF task.document_type = "bank_statement"
                     THEN BankProcessorRaises(task.file_path)
                     ELSE task.document_type \notin valid_types
       IN pipeline' =
              [pipeline EXCEPT !.tasks =
                  TaskGoto(t, IF raises THEN "set_failed" ELSE "set_completed")]
    /\ UNCHANGED <<engine, fuzzy_calls, libraries, documents, amount_calls,
                   cash_flow_reports, server, monitor>>

\* process_document: update_processing_status(document_id, 'completed', ...),
\* then _create_transactions_from_data, which keeps its errors, then return
TaskSetCompleted(t) ==
    /\ TaskAt(t, "set_completed")
    /\ pipeline' =
           [pipeline EXCEPT
               !.documents = UpdateProcessingStatus(pipeline.tasks[t].document_id,
                                                    "completed"),
               !.tasks = TaskGoto(t, "returned")]
    /\ UNCHANGED <<engine, fuzzy_calls, libraries, documents, amount_calls,
                   cash_flow_reports, server, monitor>>

\* process_document, except clause: update_processing_status(document_id,
\* 'failed'), then raise
TaskSetFailed(t) ==
    /\ TaskAt(t, "set_failed")
    /\ pipeline' =
           [pipeline EXCEPT
               !.documents = UpdateProcessingStatus(pipeline.tasks[t].document_id,
                                                    "failed"),
               !.tasks = TaskGoto(t, "raised")]
    /\ UNCHANGED <<engine, fuzzy_calls, libraries, documents, amount_calls,
                   cash_flow_reports, server, monitor>>

TaskStep(t) ==
    \/ TaskGetDocument(t)
    \/ TaskSetProcessing(t)
    \/ TaskProcess(t)
    \/ TaskSetCompleted(t)
    \/ TaskSetFailed(t)

InitPipeline == InitIdleEngine /\ InitStandalone

NextPipeline ==
    \/ UploadDocument
    \/ ReprocessDocument
    \/ \E t \in TaskIds : TaskStep(t)

SpecPipeline == InitPipeline /\ [][NextPipeline]_vars

\* ------------------------------------------------- the development server
\* dev_server_enhanced.py: POST /upload and POST /documents/{file_id}/process.
\* The metadata files are a sequence indexed by file id (the code draws a
\* uuid4 for each upload).

MaxServerRequests == 3

MAX_FILE_SIZE == 52428800

ALLOWED_EXTENSIONS == {".pdf", ".jpg", ".jpeg", ".png", ".tiff", ".csv", ".xlsx"}

DOC_TYPE_DIRS ==
    {"bank_statement", "credit_card", "vendor_invoice", "handwritten_note",
     "sales_report", "check_image"}

\* the files a client sends: three sample documents and a PDF
ClientFileNames ==
    {"sample_invoice_abc_coffee_20240115.txt", "receipt.csv", "check.json",
     "statement.pdf"}

ClientFiles == {file \in Files : file.name \in ClientFileNames}

ClientDocTypes == {"auto_detect", "vendor_invoice", "bank_statement"}

FileIds == 1..MaxServerRequests

Answer(endpoint, request, status_code, data) ==
    Append(server.answers,
           [endpoint |-> endpoint, request |-> request,
            status_code |-> status_code, data |-> data])

\* generate_filename, without the timestamp and the random part
GenerateFilename(doc_type, source, original_name) ==
    doc_type \o "_" \o source \o SuffixLower(original_name.suffix)

\* POST /upload
ServerUpload ==
    /\ Len(server.answers) < MaxServerRequests
    /\ \E file \in ClientFiles, doc_type \in ClientDocTypes, oversized \in BOOLEAN :
        LET request == [filename |-> file.name, doc_type |-> doc_type]
            size == IF oversized THEN MAX_FILE_SIZE + 1 ELSE file.size
            file_id == Len(server.metadata) + 1
        IN IF \/ SuffixLower(file.suffix) \notin ALLOWED_EXTENSIONS
              \/ size > MAX_FILE_SIZE
              \/ doc_type \notin DOC_TYPE_DIRS
           THEN server' = [server EXCEPT
                              !.answers = Answer("upload", request, 400, <<>>)]
           ELSE server' =
                    [server EXCEPT
                        !.metadata =
                            Append(@, [file_id |-> file_id,
                                       original_filename |-> file.name,
                                       doc_type |-> doc_type,
                                       file_size |-> size,
                                       file |-> file,
                                       processing_status |-> "pending"]),
                        !.answers =
                            Answer("upload", request, 200,
                                   [file_id |-> file_id,
                                    filename |-> GenerateFilename(doc_type, "unknown", file),
                                    doc_type |-> doc_type,
                                    source |-> "unknown",
                                    size |-> size,
                                    upload_time |-> "now",
                                    processing_status |-> "pending"])]
    /\ UNCHANGED <<engine, fuzzy_calls, libraries, documents, amount_calls,
                   cash_flow_reports, pipeline, monitor>>

\* POST /documents/{file_id}/process
ServerProcess ==
    /\ Len(server.answers) < MaxServerRequests
    /\ \E file_id \in FileIds :
        LET request == [file_id |-> file_id] IN
        IF file_id \notin DOMAIN server.metadata
        THEN server' = [server EXCEPT
                           !.answers = Answer("process", request, 404, <<>>)]
        ELSE LET metadata == server.metadata[file_id]
                 result == ProcessDocument(metadata.file)
                 processing_result ==
                     IF server.processor_available
                     THEN [file_id |-> file_id,
                           processing_timestamp |-> "now",
                           status |-> "processed_with_ai",
                           confidence |-> FracMul(result.confidence_score, Frac(1, 100)),
                           extracted_data |-> [document_type |-> result.document_type,
                                               processing_status |-> result.processing_status],
                           notes |-> result.extraction_method]
                     ELSE [file_id |-> file_id,
                           processing_timestamp |-> "now",
                           status |-> "processed_simulation",
                           confidence |-> Frac(92, 100),
                           extracted_data |-> [document_type |-> metadata.doc_type,
                                               processing_status |-> "simulated_extraction"],
                           notes |-> "simulated"]
             IN server' =
                    [server EXCEPT
                        !.metadata[file_id].processing_status = "completed",
                        !.results = @ \cup {file_id},
                        !.answers = Answer("process", request, 200, processing_result)]
    /\ UNCHANGED <<engine, fuzzy_calls, libraries, documents, amount_calls,
                   cash_flow_reports, pipeline, monitor>>

\* one server, with or without the import of DocumentProcessor, under any
\* installation
InitServer ==
    /\ InitIdleEngine
    /\ fuzzy_calls = <<>>
    /\ libraries \in Installations
    /\ documents = <<>>
    /\ amount_calls = <<>>
    /\ cash_flow_reports = <<>>
    /\ pipeline = IdlePipeline
    /\ \E available \in BOOLEAN :
        server = [IdleServer EXCEPT !.processor_available = available]
    /\ monitor = IdleMonitor

NextServer == ServerUpload \/ ServerProcess

SpecServer == InitServer /\ [][NextServer]_vars

\* ------------------------------------------------------ the folder monitor
\* folder_processor.py: VendorPayFileHandler on one watched folder.  The
\* observer hands the events to the handler one at a time, in order.  A
\* file id is the number of the arrival (the code builds it from the clock
\* and a hash of the path).

MaxArrivals == 3

supported_extensions ==
    {".pdf", ".jpg", ".jpeg", ".png", ".txt", ".csv", ".json", ".tiff", ".tif", ".bmp"}

\* the files dropped into the watched folder: a readable text file, a PDF
\* that cannot be opened, a photo, and a file of an unsupported type
DroppedFileNames == {"mixed.txt", "broken.pdf", "photo.jpg", "doc.xyz"}

DroppedFiles == {file \in Files : file.name \in DroppedFileNames}

InInput(name) == \E file \in monitor.input : file.name = name

FileAt(name) == CHOOSE file \in monitor.input : file.name = name

\* a file is created in, or moved into, the watched folder under a path
\* that is free
FileArrives ==
    /\ monitor.arrivals < MaxArrivals
    /\ \E file \in DroppedFiles, kind \in {"created", "moved"} :
        /\ ~InInput(file.name)
        /\ monitor' = [monitor EXCEPT
                          !.input = @ \cup {file},
                          !.events = Append(@, [kind |-> kind, path |-> file.name]),
                          !.arrivals = @ + 1]
    /\ UNCHANGED <<engine, fuzzy_calls, libraries, documents, amount_calls,
                   cash_flow_reports, pipeline, server>>

\* _is_processable_file (no path of the model begins with '.' or '~')
IsProcessableFile(file) ==
    /\ file.name \notin monitor.processed_files
    /\ SuffixLower(file.suffix) \in supported_extensions

\* _get_destination_folder
GetDestinationFolder(doc_type) ==
    CASE doc_type = "invoice" -> "invoices"
      [] doc_type = "bank_statement" -> "bank_statements"
      [] doc_type = "check" -> "checks"
      [] doc_type = "sales_report" -> "sales_reports"
      [] doc_type = "receipt" -> "receipts"
      [] doc_type = "general_document" -> "general"
      [] OTHER -> "unknown"

\* _process_document
ProcessDroppedDocument(file) ==
    LET file_id == monitor.arrivals
        result == ProcessDocument(file)
        success == IF monitor.processor_available
                   THEN result.processing_status = "success"
                   ELSE TRUE
        document_type == IF monitor.processor_available
                         THEN result.document_type
                         ELSE "unknown"
        moved == [file_id |-> file_id, file |-> file,
                  folder |-> IF success THEN GetDestinationFolder(document_type)
                             ELSE "failed"]
    IN [monitor EXCEPT
           !.processed_files = @ \cup {file.name},
           !.input = @ \ {file},
           !.processed = IF success THEN @ \cup {moved} ELSE @,
           !.failed = IF success THEN @ ELSE @ \cup {moved},
           !.results = @ \cup {file_id},
           !.events = Tail(@)]

EventPending(kind) == monitor.events # <<>> /\ Head(monitor.events).kind = kind

\* the body on_created and on_moved share
HandlePath(path) ==
    IF InInput(path) /\ IsProcessableFile(FileAt(path))
    THEN ProcessDroppedDocument(FileAt(path))
    ELSE [monitor EXCEPT !.events = Tail(@)]

OnCreated ==
    /\ EventPending("created")
    /\ monitor' = HandlePath(Head(monitor.events).path)
    /\ UNCHANGED <<engine, fuzzy_calls, libraries, documents, amount_calls,
                   cash_flow_reports, pipeline, server>>

OnMoved ==
    /\ EventPending("moved")
    /\ monitor' = HandlePath(Head(monitor.events).path)
    /\ UNCHANGED <<engine, fuzzy_calls, libraries, documents, amount_calls,
                   cash_flow_reports, pipeline, server>>

\* one handler, with or without the import of DocumentProcessor, under any
\* installation
InitFolder ==
    /\ InitIdleEngine
    /\ fuzzy_calls = <<>>
    /\ libraries \in Installations
    /\ documents = <<>>
    /\ amount_calls = <<>>
    /\ cash_flow_reports = <<>>
    /\ pipeline = IdlePipeline
    /\ server = IdleServer
    /\ \E available \in BOOLEAN :
        monitor = [IdleMonitor EXCEPT !.processor_available = available]

NextFolder == FileArrives \/ OnCreated \/ OnMoved

SpecFolder == InitFolder /\ [][NextFolder]_vars

\* ------------------------------------------------------------ properties
SeqIds(rows) == {rows[n].id : n \in 1..Len(rows)}

Distinct(seq, F(_)) ==
    \A a, b \in 1..Len(seq) : a # b => F(seq[a]) # F(seq[b])

StmtOf(match) == match.statement_transaction.id
BizOf(match) == match.business_transaction.id
RecStmt(rec) == rec.statement_transaction_id
RecBiz(rec) == rec.business_transaction_id

\* the matches a run reports, over its four lists
ReportedMatches(r) ==
    results[r].exact_matches \o results[r].fuzzy_matches
        \o results[r].amount_matches \o results[r].date_matches

LaterMatches(r) ==
    results[r].fuzzy_matches \o results[r].amount_matches
        \o results[r].date_matches

\* C1: within one run_reconciliation call no statement transaction id and no
\* business transaction id appears in more than one reported match, nor in
\* more than one reconciliation record the run creates.
C1_OneMatchPerRun ==
    /\ \A r \in Runs :
        /\ Distinct(ReportedMatches(r), StmtOf)
        /\ Distinct(ReportedMatches(r), BizOf)
    /\ Distinct(reconciliation_records, RecStmt)
    /\ Distinct(reconciliation_records, RecBiz)

\* two statements competed for the business transaction of the first match
C1_Witness ==
    /\ pc["run1"] = "done"
    /\ Len(results["run1"].exact_matches) = 2
    /\ Len(reconciliation_records) = 2
    /\ LET m == results["run1"].exact_matches
       IN ExactIsMatch(m[2].statement_transaction, m[1].business_transaction,
                       m[1].business_transaction_type)

\* C6: a statement the exact pass leaves unmatched, with a business
\* transaction not yet consumed that the amount or the date matcher accepts,
\* is reported by a later pass and a record of that pass's type is created.
C6_CascadeMatches ==
    \A r \in Runs : pc[r] = "done" =>
        \A n \in 1..Len(frame[r].available_statements) :
            LET stmt == frame[r].available_statements[n]
                out == frame[r].available_outgoing
                inc == frame[r].available_incoming
                accepted ==
                    \/ \E k \in 1..Len(out) :
                        \/ AmountPairMatches(stmt, out[k], "outgoing")
                        \/ DatePairMatches(stmt, out[k], "outgoing")
                    \/ \E k \in 1..Len(inc) :
                        \/ AmountPairMatches(stmt, inc[k], "incoming")
                        \/ DatePairMatches(stmt, inc[k], "incoming")
            IN accepted =>
                /\ \E k \in 1..Len(LaterMatches(r)) :
                        StmtOf(LaterMatches(r)[k]) = stmt.id
                /\ \E k \in 1..Len(reconciliation_records) :
                        /\ RecStmt(reconciliation_records[k]) = stmt.id
                        /\ reconciliation_records[k].match_type
                               \in {"fuzzy", "amount", "date"}

PassRank(position) ==
    CASE position \in {"exact_outgoing", "exact_incoming", "insert",
                       "flip_business", "flip_statement"} -> 1
      [] position = "fuzzy" -> 2
      [] position = "amount" -> 3
      [] position = "date" -> 4
      [] position = "summary" -> 5
      [] position = "done" -> 6
      [] OTHER -> 0

\* once the fuzzy pass has run: what it kept for the later passes holds no
\* transaction of an exact match, and no later list repeats an earlier match
EarlierExcluded(r) ==
    PassRank(pc[r]) >= 3 =>
        LET exact == results[r].exact_matches
            f == frame[r]
        IN  /\ SeqIds(f.available_statements)
                    \cap {StmtOf(exact[n]) : n \in 1..Len(exact)} = {}
            /\ (SeqIds(f.available_outgoing) \cup SeqIds(f.available_incoming))
                    \cap {BizOf(exact[n]) : n \in 1..Len(exact)} = {}
            /\ Distinct(ReportedMatches(r), StmtOf)
            /\ Distinct(ReportedMatches(r), BizOf)

C8_UnmatchedListed ==
    \A r \in Runs : pc[r] = "done" =>
        LET res == results[r]
            all == ReportedMatches(r)
            left_statements ==
                SeqIds(frame[r].statements)
                    \ {StmtOf(all[n]) : n \in 1..Len(all)}
            left_business ==
                (SeqIds(frame[r].outgoing) \cup SeqIds(frame[r].incoming))
                    \ {BizOf(all[n]) : n \in 1..Len(all)}
        IN  /\ SeqIds(res.unmatched_statements) = left_statements
            /\ SeqIds(res.unmatched_business) = left_business
            /\ res.reconciliation_summary.unmatched_statements
                   = Cardinality(left_statements)
            /\ res.reconciliation_summary.unmatched_business_transactions
                   = Cardinality(left_business)

\* C9: the reconciliation_rate of every result is in [0,1], no run raises a
\* division by zero, and the rate is 0 when the run found no match.
C9_RateInUnitInterval ==
    \A r \in Runs :
        /\ frame[r].error # "ZeroDivisionError"
        /\ pc[r] = "done" =>
            LET summary == results[r].reconciliation_summary
                rate == summary.reconciliation_rate
            IN  /\ rate.den > 0
                /\ 0 <= rate.num
                /\ rate.num <= rate.den
                /\ summary.total_matches_found = 0 => rate.num = 0

\* a run that found no match among its candidates
C9_Witness ==
    /\ pc["run1"] = "done"
    /\ results["run1"].reconciliation_summary.total_matches_found = 0
    /\ Len(frame["run1"].statements) > 0

\* C10: no entry of exact_matches pairs a statement and a business
\* transaction whose absolute amounts differ by more than 0.01.
C10_ExactAmountWithinCent ==
    \A r \in Runs :
        \A n \in 1..Len(results[r].exact_matches) :
            LET m == results[r].exact_matches[n]
            IN Abs(Abs(m.statement_transaction.amount)
                   - Abs(m.business_transaction.amount)) <= 1

\* an exact match at the edge of the tolerance, beside a candidate 0.02 away
C10_Witness ==
    /\ pc["run1"] = "done"
    /\ \E n \in 1..Len(results["run1"].exact_matches) :
        LET m == results["run1"].exact_matches[n]
        IN Abs(Abs(m.statement_transaction.amount)
               - m.business_transaction.amount) = 1
    /\ \E n \in 1..Len(frame["run1"].statements),
          k \in 1..Len(frame["run1"].outgoing) :
        /\ Abs(Abs(frame["run1"].statements[n].amount)
               - frame["run1"].outgoing[k].amount) = 2
        /\ TypeAligned(frame["run1"].statements[n], "outgoing")
        /\ frame["run1"].statements[n].id
               \notin frame["run1"].matched_statements


\* ------------------------------------------------ the end-to-end scenarios
\* a debit statement and an outgoing transaction of equal absolute amount on
\* the same date
PerfectPair(stmt, business_trans) ==
    /\ Lower(stmt.transaction_type) = "debit"
    /\ Abs(stmt.amount) = business_trans.amount
    /\ ParseDate(stmt.transaction_date) # NoDate
    /\ stmt.transaction_date = business_trans.transaction_date

BusinessTable(business_type) ==
    IF business_type = "outgoing" THEN outgoing_transactions
    ELSE incoming_transactions

RecordsOfStatement(id) ==
    {k \in 1..Len(reconciliation_records) :
        RecStmt(reconciliation_records[k]) = id}

RecordsOfBusiness(id) ==
    {k \in 1..Len(reconciliation_records) :
        RecBiz(reconciliation_records[k]) = id}

\* C2: in every state of the store each statement transaction id and each
\* business transaction id appears in at most one reconciliation record.
C2_AtMostOneRecord ==
    /\ Distinct(reconciliation_records, RecStmt)
    /\ Distinct(reconciliation_records, RecBiz)

\* C3: a match is created atomically: whenever no create_reconciliation is
\* under way, a record's statement transaction has is_matched and its
\* business transaction is matched, and every matched transaction has its
\* record; the three writes never take effect in part.
C3_MatchAtomic ==
    Quiescent =>
    /\ \A k \in 1..Len(reconciliation_records) :
        LET rec == reconciliation_records[k]
            table == BusinessTable(rec.business_transaction_type)
        IN  /\ statement_transactions[RecStmt(rec)].is_matched
            /\ RecBiz(rec) \in DOMAIN table
            /\ table[RecBiz(rec)].reconciliation_status = "matched"
    /\ \A id \in StmtIds :
        statement_transactions[id].is_matched => RecordsOfStatement(id) # {}
    /\ \A id \in BizIds, t \in {"outgoing", "incoming"} :
        (/\ id \in DOMAIN BusinessTable(t)
         /\ BusinessTable(t)[id].reconciliation_status = "matched")
            => RecordsOfBusiness(id) # {}

\* the store holds the whole match: the record and both flips
StoreHoldsMatch(match) ==
    LET table == BusinessTable(match.business_transaction_type)
    IN  /\ \E k \in 1..Len(reconciliation_records) :
            /\ RecStmt(reconciliation_records[k]) = StmtOf(match)
            /\ RecBiz(reconciliation_records[k]) = BizOf(match)
        /\ statement_transactions[StmtOf(match)].is_matched
        /\ BizOf(match) \in DOMAIN table
        /\ table[BizOf(match)].reconciliation_status = "matched"

\* C4: a run that returns normally returns as matches only pairs whose match
\* the store holds in full; a failed write of a match is surfaced instead.
C4_FailureSurfaced ==
    \A r \in Runs : pc[r] = "done" =>
        \A n \in 1..Len(ReportedMatches(r)) :
            StoreHoldsMatch(ReportedMatches(r)[n])

\* C5: whatever the interleaving of two runs, a statement or business
\* transaction both took as a candidate ends in at most one record.
C5_NoConcurrentDoubleMatch ==
    /\ \A id \in StmtIds : Cardinality(RecordsOfStatement(id)) <= 1
    /\ \A id \in BizIds : Cardinality(RecordsOfBusiness(id)) <= 1


\* a run's candidates, by table
Candidates(r, table_name) ==
    CASE table_name = "statements" -> SeqIds(frame[r].statements)
      [] table_name = "outgoing" -> SeqIds(frame[r].outgoing)
      [] table_name = "incoming" -> SeqIds(frame[r].incoming)

\* the transactions the store holds as matched, by table
MatchedIn(table_name) ==
    CASE table_name = "statements" ->
            {id \in StmtIds : statement_transactions[id].is_matched}
      [] table_name = "outgoing" ->
            {id \in DOMAIN outgoing_transactions :
                outgoing_transactions[id].reconciliation_status = "matched"}
      [] table_name = "incoming" ->
            {id \in DOMAIN incoming_transactions :
                incoming_transactions[id].reconciliation_status = "matched"}

\* C14: the reconciliation state of a transaction is one-way: a statement
\* with is_matched or a business transaction with status matched stays so
\* in every step, and no step adds it to the candidates of a run.
C14_MatchedIsTerminal ==
    [][\A table_name \in {"statements", "outgoing", "incoming"} :
          \A id \in MatchedIn(table_name) :
              /\ id \in MatchedIn(table_name)'
              /\ \A r \in Runs :
                    id \in Candidates(r, table_name)'
                        => id \in Candidates(r, table_name)]_vars

\* a second run has ended: it read the other statement but not the one the
\* first run matched
C14_Witness ==
    /\ run_budget = 0
    /\ pc["run1"] = "done"
    /\ \E id \in MatchedIn("statements"), other \in StmtIds :
        /\ id \notin Candidates("run1", "statements")
        /\ other \in Candidates("run1", "statements")
    /\ \E id \in MatchedIn("outgoing") : id \notin Candidates("run1", "outgoing")


ReadPositions == {"read_outgoing", "read_incoming", "read_statements"}
WritePositions == {"insert", "flip_business", "flip_statement"}

\* C15: run_reconciliation raises exactly when a request to the store fails:
\* a failed read makes the call raise with nothing written, a failed write
\* makes the call raise instead of going on to a normal result, and the call
\* raises for no other reason.
C15_StoreFailureAborts ==
    [][\A r \in Runs :
          LET failed == fault_budget' < fault_budget /\ pc'[r] # pc[r]
          IN  /\ (failed /\ pc[r] \in ReadPositions) =>
                    /\ pc'[r] = "raised"
                    /\ store' = store
                    /\ frame[r].matched_statements = {}
              /\ (failed /\ pc[r] \in WritePositions) => pc'[r] = "raised"
              /\ (pc'[r] = "raised" /\ pc[r] # "raised") => failed]_vars


\* ------------------------------------------- properties of FuzzyMatcher
\* the three quantities is_match scores, as it computes them
RelativeAmountDifference(statement_trans, business_trans) ==
    LET stmt_amount == Abs(statement_trans.amount)
        q == Divide(Abs(stmt_amount - business_trans.amount),
                    Max(stmt_amount, business_trans.amount))
    IN IF q.raised # None THEN q
       ELSE [num |-> Frac(q.num, q.den).num, den |-> Frac(q.num, q.den).den,
             raised |-> None]

DateDifference(statement_trans, business_trans) ==
    IF ParseDate(statement_trans.transaction_date) = NoDate
        \/ ParseDate(business_trans.transaction_date) = NoDate
    THEN NoDate
    ELSE Abs(statement_trans.transaction_date - business_trans.transaction_date)

\* C12: with the default threshold 0.8, is_match accepts a pair 3% apart in
\* amount and 5 days apart in date whose description similarity is 0.9, with
\* a confidence of at least 0.8, and rejects such a pair when the similarity
\* is 0.
C12_FuzzyThresholdScenario ==
    \A n \in 1..Len(fuzzy_calls) :
        LET c == fuzzy_calls[n]
            pct == RelativeAmountDifference(c.statement_trans, c.business_trans)
            scenario ==
                /\ pct.raised = None
                /\ pct.num * 100 = 3 * pct.den
                /\ DateDifference(c.statement_trans, c.business_trans) = 5
            similarity == TextSimilarity(c.statement_trans, c.business_trans)
        IN  /\ (scenario /\ similarity = Frac(9, 10)) =>
                /\ c.returned.is_match
                /\ ~FracLess(c.returned.confidence, Frac(8, 10))
            /\ (scenario /\ similarity = Frac(0, 1)) =>
                /\ ~c.returned.is_match
                /\ FracLess(c.returned.confidence, Frac(8, 10))

\* -100.00 against 97.00 five days later, descriptions 0.9 alike: accepted
C12_Witness ==
    /\ Len(fuzzy_calls) = 1
    /\ fuzzy_calls[1].statement_trans.amount = -10000
    /\ fuzzy_calls[1].business_trans.amount = 9700
    /\ DateDifference(fuzzy_calls[1].statement_trans,
                      fuzzy_calls[1].business_trans) = 5
    /\ TextSimilarity(fuzzy_calls[1].statement_trans,
                      fuzzy_calls[1].business_trans) = Frac(9, 10)
    /\ fuzzy_calls[1].returned.is_match

\* the second pair is no closer than the first in one quantity and equal to
\* it in the other two
NoCloser(st1, bt1, st2, bt2) ==
    LET p1 == RelativeAmountDifference(st1, bt1)
        p2 == RelativeAmountDifference(st2, bt2)
        d1 == DateDifference(st1, bt1)
        d2 == DateDifference(st2, bt2)
        t1 == TextSimilarity(st1, bt1)
        t2 == TextSimilarity(st2, bt2)
    IN  \/ /\ p1.raised = None /\ p2.raised = None
           /\ ~FracLess(p2, p1)
           /\ d1 = d2 /\ t1 = t2
        \/ /\ d1 # NoDate /\ d2 # NoDate
           /\ d2 >= d1
           /\ p1 = p2 /\ t1 = t2
        \/ /\ ~FracLess(t1, t2)
           /\ p1 = p2 /\ d1 = d2

\* C13: the confidence of is_match does not increase when the relative amount
\* difference grows, when the date difference grows, or when the description
\* similarity falls, the other two being equal; past 5% and past 7 days it
\* is 0.
C13_ConfidenceMonotone ==
    \A n \in 1..Len(fuzzy_calls) :
        LET c == fuzzy_calls[n]
        IN \A st2 \in FuzzyStatements, bt2 \in FuzzyBusiness :
            NoCloser(c.statement_trans, c.business_trans, st2, bt2) =>
                ~FracLess(c.returned.confidence,
                          FuzzyIsMatch(st2, bt2, c.business_type).confidence)

\* a call scored above 0 that has a pair farther in amount across the 5%
\* cut-off and a pair farther in date across the 7-day cut-off
C13_Witness ==
    /\ Len(fuzzy_calls) = 1
    /\ LET c == fuzzy_calls[1]
       IN /\ c.returned.confidence.num > 0
          /\ c.statement_trans.amount = -10000
          /\ c.business_trans.amount = 9700
          /\ DateDifference(c.statement_trans, c.business_trans) = 5
          /\ \E bt2 \in FuzzyBusiness :
                /\ bt2.amount = 9400
                /\ NoCloser(c.statement_trans, c.business_trans,
                            c.statement_trans, bt2)
                /\ FuzzyIsMatch(c.statement_trans, bt2, c.business_type).confidence
                        = Frac(0, 1)
          /\ \E bt2 \in FuzzyBusiness :
                /\ bt2.transaction_date = 18
                /\ NoCloser(c.statement_trans, c.business_trans,
                            c.statement_trans, bt2)
                /\ FuzzyIsMatch(c.statement_trans, bt2, c.business_type).confidence
                        = Frac(0, 1)


\* ------------------------------------------------------ CashFlowAnalyzer
\* the report dict as the method builds it; nothing is read from the store
CashFlowReport(start_date, end_date) ==
    [period |-> [start_date |-> start_date, end_date |-> end_date],
     summary |-> [total_income |-> 0, total_expenses |-> 0, net_cash_flow |-> 0],
     income_breakdown |-> [sales_revenue |-> 0, card_payments |-> 0,
                           cash_payments |-> 0, gift_card_payments |-> 0],
     expense_breakdown |-> [vendor_payments |-> 0, royalty_payments |-> 0,
                            utilities |-> 0, other |-> 0],
     reconciliation_status |-> [reconciled_percentage |-> 0,
                                unreconciled_transactions |-> 0,
                                disputed_transactions |-> 0],
     trends |-> [daily_averages |-> EmptyDict,
                 payment_method_distribution |-> EmptyDict,
                 vendor_spending_patterns |-> EmptyDict]]

MaxReports == 1

ReportDates == {9, 10, 14}

GenerateCashFlowReportCall ==
    /\ Len(cash_flow_reports) < MaxReports
    /\ \E start_date \in ReportDates, end_date \in ReportDates :
        /\ start_date <= end_date
        /\ cash_flow_reports' =
               Append(cash_flow_reports, CashFlowReport(start_date, end_date))
    /\ UNCHANGED <<engine, fuzzy_calls, libraries, documents, amount_calls,
                   pipeline, server, monitor>>

\* one run_reconciliation call, and a report asked for at any moment
NextCashFlow == Next \/ GenerateCashFlowReportCall

SpecCashFlow == Init /\ [][NextCashFlow]_vars

\* ------------------------------------------------ properties of documents
\* the classifier as the contract words it: the classes in their fixed order,
\* the first one with enough keywords in the lower-cased text
ClassOrder == <<"invoice", "bank_statement", "check", "sales_report", "receipt">>

KeywordSet(class) ==
    CASE class = "invoice" -> InvoiceKeywords
      [] class = "bank_statement" -> BankKeywords
      [] class = "check" -> CheckKeywords
      [] class = "sales_report" -> SalesKeywords
      [] class = "receipt" -> ReceiptKeywords

Reaches(class, text) ==
    Cardinality({keyword \in KeywordSet(class) :
                    \E n \in 1..Len(text) : keyword \in NeedlesIn(LowerLine(text[n]))}) >= 2

ClassifyReference(text) ==
    IF text = <<>> \/ text[1] \in BracketLines THEN "unknown"
    ELSE IF \E n \in 1..Len(ClassOrder) : Reaches(ClassOrder[n], text)
    THEN ClassOrder[CHOOSE n \in 1..Len(ClassOrder) :
                        /\ Reaches(ClassOrder[n], text)
                        /\ \A m \in 1..(n - 1) : ~Reaches(ClassOrder[m], text)]
    ELSE "general_document"

\* C16: the class of every processed document is the one the reference
\* function gives for its text: unknown for an empty or bracketed text, else
\* the first class in the order invoice, bank_statement, check, sales_report,
\* receipt with at least 2 keywords in the lower-cased text, else
\* general_document.
C16_ClassifierEqualsReference ==
    \A n \in 1..Len(documents) :
        documents[n].returned.document_type
            = ClassifyReference(documents[n].returned.text_content)

\* a text classified invoice with 2 invoice keywords although it holds more
\* receipt keywords
C16_Witness ==
    \E n \in 1..Len(documents) :
        LET text_lower == TextLower(documents[n].returned.text_content)
        IN  /\ documents[n].returned.document_type = "invoice"
            /\ KeywordCount(InvoiceKeywords, text_lower) = 2
            /\ KeywordCount(ReceiptKeywords, text_lower) > 2

IsTextFile(file) == SuffixLower(file.suffix) \in TextExtensions

\* C18 as stated: every .txt, .csv or .json file, in any letter case, is
\* extracted with confidence exactly 100 and the direct-read method.
C18_TextFilesAlwaysDirectRead ==
    \A n \in 1..Len(documents) :
        IsTextFile(documents[n].file)
            => /\ documents[n].extraction.confidence = Frac(100, 1)
               /\ documents[n].extraction.method = "direct_text_read"

\* C18: a .txt, .csv or .json file, in any letter case, that can be read and
\* decoded is extracted with its own text, confidence exactly 100 and the
\* direct-read method; one that cannot is extracted with confidence 0, the
\* error method and a bracketed text.
C18_ReadableTextFilesDirectRead ==
    \A n \in 1..Len(documents) :
        IsTextFile(documents[n].file)
            => IF documents[n].file.read.raised = None
               THEN /\ documents[n].extraction.confidence = Frac(100, 1)
                    /\ documents[n].extraction.method = "direct_text_read"
                    /\ documents[n].extraction.text = documents[n].file.read.text
               ELSE /\ documents[n].extraction.confidence = Frac(0, 1)
                    /\ documents[n].extraction.method = "error"
                    /\ StartsWithBracket(documents[n].extraction.text)

\* an upper-case text suffix read directly, and a text file that does not
\* decode
C18_Witness ==
    /\ \E n \in 1..Len(documents) :
        /\ documents[n].file.suffix \in {".TXT", ".CSV", ".Json"}
        /\ documents[n].extraction.method = "direct_text_read"
    /\ \E n \in 1..Len(documents) :
        /\ IsTextFile(documents[n].file)
        /\ documents[n].file.read.raised # None
        /\ documents[n].extraction.method = "error"

IsUnsupported(file) ==
    SuffixLower(file.suffix) \notin ImageExtensions \cup PdfExtensions \cup TextExtensions

\* C19: a file whose extension is no image, PDF or text extension is
\* extracted with confidence 0, method unsupported and a text beginning with
\* '['; process_document returns, with type unknown, no extracted fields and
\* no financial data.
C19_UnsupportedIsUnknown ==
    \A n \in 1..Len(documents) :
        IsUnsupported(documents[n].file)
            => /\ documents[n].extraction.confidence = Frac(0, 1)
               /\ documents[n].extraction.method = "unsupported"
               /\ StartsWithBracket(documents[n].extraction.text)
               /\ documents[n].returned.processing_status = "success"
               /\ documents[n].returned.document_type = "unknown"
               /\ DOMAIN documents[n].returned.extracted_fields = {}
               /\ DOMAIN documents[n].returned.financial_data = {}

\* an unsupported file whose diagnostic text holds an amount, and one with no
\* suffix at all
C19_Witness ==
    /\ \E n \in 1..Len(documents) :
        /\ IsUnsupported(documents[n].file)
        /\ ReFindall("amounts", documents[n].extraction.text) # <<>>
        /\ documents[n].returned.document_type = "unknown"
    /\ \E n \in 1..Len(documents) :
        /\ documents[n].file.suffix = ""
        /\ documents[n].returned.document_type = "unknown"

\* extraction fails: unsupported format, text that cannot be read or decoded,
\* OCR or PDF libraries missing, a picture or PDF that cannot be opened, or
\* OCR raising on every page of a PDF without text layer
ExtractionFailed(file) ==
    LET extension == SuffixLower(file.suffix)
        ocr_available == "pytesseract" \in libraries /\ "PIL" \in libraries
        direct == /\ "PyPDF2" \in libraries
                  /\ ~file.layer.raised
                  /\ Strip(ConcatPages(file.layer.pages)) # <<>>
    IN  \/ IsUnsupported(file)
        \/ extension \in TextExtensions /\ file.read.raised # None
        \/ /\ extension \in ImageExtensions
           /\ ~ocr_available \/ file.raster.pages[1].raised # None
        \/ /\ extension \in PdfExtensions
           /\ ~direct
           /\ \/ "pdf2image" \notin libraries
              \/ ~ocr_available
              \/ file.raster.raised
              \/ /\ file.raster.pages # <<>>
                 /\ \A i \in 1..Len(file.raster.pages) :
                        file.raster.pages[i].raised # None

\* C20: whenever extraction fails, the result has confidence 0 and a text
\* beginning with '[', and the document is classified unknown.
C20_FailedExtractionIsUnknown ==
    \A n \in 1..Len(documents) :
        ExtractionFailed(documents[n].file)
            => /\ documents[n].extraction.confidence = Frac(0, 1)
               /\ StartsWithBracket(documents[n].extraction.text)
               /\ documents[n].returned.document_type = "unknown"


\* ------------------------------------------- properties of exact matching
AfterExactMatching(r) == pc[r] \in {"fuzzy", "amount", "date", "summary", "done"}

BusinessList(r, business_type) ==
    IF business_type = "outgoing" THEN frame[r].outgoing ELSE frame[r].incoming

\* position of the first candidate of the list that matches the statement and
\* is not among the consumed ids; 0 when there is none
FirstFit(stmt, business, consumed, business_type) ==
    LET fits == {j \in 1..Len(business) :
                    /\ business[j].id \notin consumed
                    /\ ExactIsMatch(stmt, business[j], business_type)}
    IN  IF fits = {} THEN 0 ELSE CHOOSE j \in fits : \A k \in fits : j <= k

StatementPosition(r, id) ==
    CHOOSE i \in 1..Len(frame[r].statements) : frame[r].statements[i].id = id

\* the matches made before the turn of statement i in the pass of
\* business_type: every earlier pass, and the earlier statements of this one
MadeBefore(r, business_type, i) ==
    LET exact == results[r].exact_matches
    IN  {n \in 1..Len(exact) :
            \/ /\ business_type = "incoming"
               /\ exact[n].business_transaction_type = "outgoing"
            \/ /\ exact[n].business_transaction_type = business_type
               /\ StatementPosition(r, exact[n].statement_transaction.id) < i}

\* C28: exact matching is greedy first-fit: the matches are listed outgoing
\* pass first, in statement order inside a pass; each match pairs a statement
\* not matched before with the first candidate of the list that is eligible
\* and not consumed by an earlier match; a statement left unmatched in a pass
\* had no such candidate at its turn.
C28_GreedyFirstFit ==
    AfterExactMatching("run1") =>
        LET exact == results["run1"].exact_matches
            statements == frame["run1"].statements
        IN  /\ \A n \in 1..Len(exact) :
                LET business_type == exact[n].business_transaction_type
                    business == BusinessList("run1", business_type)
                    consumed == {exact[k].business_transaction.id : k \in 1..(n - 1)}
                    j == FirstFit(exact[n].statement_transaction, business,
                                  consumed, business_type)
                IN  /\ \A k \in 1..(n - 1) :
                        exact[k].statement_transaction.id
                            # exact[n].statement_transaction.id
                    /\ j # 0
                    /\ exact[n].business_transaction = business[j]
            /\ \A n, k \in 1..Len(exact) :
                n < k =>
                    /\ exact[n].business_transaction_type = "incoming"
                        => exact[k].business_transaction_type = "incoming"
                    /\ exact[n].business_transaction_type
                            = exact[k].business_transaction_type
                        => StatementPosition("run1", exact[n].statement_transaction.id)
                             < StatementPosition("run1", exact[k].statement_transaction.id)
            /\ \A i \in 1..Len(statements), business_type \in {"outgoing", "incoming"} :
                LET before == MadeBefore("run1", business_type, i)
                    matched == \E n \in 1..Len(exact) :
                        /\ exact[n].statement_transaction.id = statements[i].id
                        /\ \/ n \in before
                           \/ exact[n].business_transaction_type = business_type
                IN  ~matched =>
                        FirstFit(statements[i], BusinessList("run1", business_type),
                                 {exact[n].business_transaction.id : n \in before},
                                 business_type) = 0

\* the first statement took a candidate although a later one of the list is
\* closer in amount, and the second statement, for which the consumed
\* candidate is first in the list, got the later one
C28_Witness ==
    /\ pc["run1"] = "done"
    /\ LET exact == results["run1"].exact_matches
           outgoing == frame["run1"].outgoing
       IN  /\ Len(exact) = 2
           /\ Len(outgoing) = 2
           /\ exact[1].business_transaction = outgoing[1]
           /\ exact[2].business_transaction = outgoing[2]
           /\ Abs(Abs(exact[1].statement_transaction.amount) - outgoing[1].amount)
                > Abs(Abs(exact[1].statement_transaction.amount) - outgoing[2].amount)
           /\ FirstFit(exact[2].statement_transaction, outgoing, {}, "outgoing") = 1


\* --------------------------------------------- properties of AmountMatcher
\* the pair is one find_matches has to return: amounts within the tolerance,
\* direction aligned
AmountEligible(stmt, business_trans, business_type) ==
    /\ Abs(Abs(stmt.amount) - business_trans.amount) <= AmountTolerance
    /\ \/ business_type = "outgoing" /\ Lower(stmt.transaction_type) = "debit"
       \/ business_type = "incoming" /\ Lower(stmt.transaction_type) = "credit"

\* C29: AmountMatcher.find_matches returns, without raising, every pair whose
\* absolute amounts differ by at most the tolerance and whose direction
\* aligns, and no other, in non-increasing order of the confidence
\* 1 - amount_diff / max(amounts), each confidence in [0, 1]; pairs of two
\* zero amounts included.
C29_AmountMatchesComplete ==
    \A n \in 1..Len(amount_calls) :
        LET c == amount_calls[n]
            matches == c.returned.matches
        IN  /\ c.returned.raised = None
            /\ \A i \in 1..Len(c.statements), j \in 1..Len(c.business_transactions) :
                AmountEligible(c.statements[i], c.business_transactions[j],
                               c.business_type)
                    <=> \E k \in 1..Len(matches) :
                            /\ matches[k].stmt = c.statements[i]
                            /\ matches[k].business_trans = c.business_transactions[j]
            /\ \A k \in 1..Len(matches) :
                /\ ~FracLess(matches[k].confidence, Frac(0, 1))
                /\ ~FracLess(Frac(1, 1), matches[k].confidence)
            /\ \A k \in 1..(Len(matches) - 1) :
                ~FracLess(matches[k].confidence, matches[k + 1].confidence)


\* ------------------------------------------ properties of CashFlowAnalyzer
\* sum of the amounts of the reconciled rows of a table dated in the range
RECURSIVE SumReconciled(_, _, _, _)
SumReconciled(table, ids, start_date, end_date) ==
    IF ids = {} THEN 0
    ELSE LET id == CHOOSE k \in ids : TRUE
             counted == /\ table[id].reconciliation_status = "matched"
                        /\ table[id].transaction_date >= start_date
                        /\ table[id].transaction_date <= end_date
         IN (IF counted THEN table[id].amount ELSE 0)
                + SumReconciled(table, ids \ {id}, start_date, end_date)

\* C24: the report generate_cash_flow_report returns for [start, end] has
\* total income and total expenses equal to the sums of the reconciled
\* incoming and outgoing amounts dated in the range, their difference as net
\* cash flow, and a reconciled percentage above 0 when a statement of the
\* store is matched.
C24_ReportAggregatesReconciled ==
    [][cash_flow_reports' # cash_flow_reports =>
        LET report == cash_flow_reports'[Len(cash_flow_reports')]
            income == SumReconciled(incoming_transactions,
                                    DOMAIN incoming_transactions,
                                    report.period.start_date,
                                    report.period.end_date)
            expenses == SumReconciled(outgoing_transactions,
                                      DOMAIN outgoing_transactions,
                                      report.period.start_date,
                                      report.period.end_date)
        IN  /\ report.summary.total_income = income
            /\ report.summary.total_expenses = expenses
            /\ report.summary.net_cash_flow = income - expenses
            /\ (\E id \in DOMAIN statement_transactions :
                    statement_transactions[id].is_matched)
                => report.reconciliation_status.reconciled_percentage > 0]_vars


\* the three lines of the end-to-end invoice scenario, the total line with
\* the spacing of the minimal invoice or of the repository's sample invoice
TotalLines ==
    {"Total: $1,014.69",
     "                               Total:            $1,014.69"}

HasScenarioLines(text) ==
    /\ \E n \in 1..Len(text) : text[n] = "Invoice #: INV-2024-001"
    /\ \E n \in 1..Len(text) : text[n] \in TotalLines
    /\ \E n \in 1..Len(text) : text[n] = "Due Date: February 14, 2024"

HasField(fields, key, value) == key \in DOMAIN fields /\ fields[key] = value

\* C22: a text invoice holding the lines "Invoice #: INV-2024-001",
\* "Total: $1,014.69" and "Due Date: February 14, 2024" is classified invoice
\* with invoice_number INV-2024-001, total_amount 1,014.69 and due_date
\* February 14, 2024, whatever its other lines.
C22_InvoiceScenario ==
    \A n \in 1..Len(documents) :
        LET d == documents[n]
        IN  (IsTextFile(d.file) /\ d.file.read.raised = None
                /\ HasScenarioLines(d.file.read.text))
                => /\ d.returned.document_type = "invoice"
                   /\ HasField(d.returned.extracted_fields, "invoice_number",
                               "INV-2024-001")
                   /\ HasField(d.returned.extracted_fields, "total_amount",
                               "1,014.69")
                   /\ HasField(d.returned.extracted_fields, "due_date",
                               "February 14, 2024")

\* C30: unknown marks a failed extraction only: a document whose text was
\* extracted, with confidence above 0 and a text that is not empty, is not
\* classified unknown, and the amounts its text holds are in its financial
\* data.
C30_UnknownOnlyOnFailure ==
    \A n \in 1..Len(documents) :
        LET d == documents[n]
        IN  (FracLess(Frac(0, 1), d.extraction.confidence) /\ d.extraction.text # <<>>)
                => /\ d.returned.document_type # "unknown"
                   /\ ReFindall("amounts", d.extraction.text) # <<>>
                        => "amounts_found" \in DOMAIN d.returned.financial_data


\* ------------------------------------------ properties of the pipeline

\* C21: processing a document never raises to the caller for a failure of
\* that one document: no call of process_document ends by raising.
C21_NeverRaises ==
    \A t \in DOMAIN pipeline.tasks : pipeline.tasks[t].pc # "raised"

LifecycleMoves ==
    {<<"pending", "processing">>, <<"processing", "completed">>,
     <<"processing", "failed">>}

\* C23: a document record starts as pending, its status only moves
\* pending -> processing -> completed or failed, and a run that raises
\* leaves it failed.
C23_StatusLifecycle ==
    [][/\ \A d \in DOMAIN pipeline'.documents :
            IF d \in DOMAIN pipeline.documents
            THEN \/ pipeline'.documents[d].processing_status =
                        pipeline.documents[d].processing_status
                 \/ <<pipeline.documents[d].processing_status,
                      pipeline'.documents[d].processing_status>> \in LifecycleMoves
            ELSE pipeline'.documents[d].processing_status = "pending"
       /\ \A t \in DOMAIN pipeline.tasks :
            (/\ pipeline.tasks[t].pc # "raised"
             /\ pipeline'.tasks[t].pc = "raised"
             /\ pipeline.tasks[t].document_id \in DOMAIN pipeline.documents)
            => pipeline'.documents[pipeline.tasks[t].document_id].processing_status
                   = "failed"
      ]_vars

\* --------------------------------- properties of the development server

SampleSuffixes == {".txt", ".csv", ".json"}

SuffixOfName(name) == (CHOOSE file \in Files : file.name = name).suffix

\* C27: an upload of a sample document (.txt, .csv or .json) with doc_type
\* 'auto_detect' is answered 200 with file_id, original_filename, doc_type
\* and file_size in the data, and processing an uploaded document is
\* answered 200 with a status and a confidence.
C27_SampleWorkflowAccepted ==
    \A a \in DOMAIN server.answers :
        LET answer == server.answers[a] IN
        /\ (/\ answer.endpoint = "upload"
            /\ SuffixOfName(answer.request.filename) \in SampleSuffixes
            /\ answer.request.doc_type = "auto_detect")
           => /\ answer.status_code = 200
              /\ {"file_id", "original_filename", "doc_type", "file_size"}
                     \subseteq DOMAIN answer.data
        /\ (/\ answer.endpoint = "process"
            /\ \E u \in 1..(a - 1) :
                  /\ server.answers[u].endpoint = "upload"
                  /\ server.answers[u].status_code = 200
                  /\ server.answers[u].data.file_id = answer.request.file_id)
           => /\ answer.status_code = 200
              /\ {"status", "confidence"} \subseteq DOMAIN answer.data

\* ------------------------------------- properties of the folder monitor

\* C25: every supported file that arrives in the watched folder is
\* processed and moved out of it, a later arrival under a used path
\* included: once the handler has served every event, no supported file is
\* left in the input folder.
C25_EveryArrivalProcessed ==
    monitor.events = <<>>
        => \A file \in monitor.input :
               SuffixLower(file.suffix) \notin supported_extensions

\* C26: a file whose extraction failed or whose status is failed ends in the
\* failed folder, and every file in a processed folder was processed
\* successfully and has its results JSON.
C26_FailuresGoToFailed ==
    /\ \A moved \in monitor.processed :
        /\ ~ExtractionFailed(moved.file)
        /\ ProcessDocument(moved.file).processing_status = "success"
        /\ moved.file_id \in monitor.results
    /\ \A moved \in monitor.failed :
        \/ ExtractionFailed(moved.file)
        \/ ProcessDocument(moved.file).processing_status # "success"

=============================================================================
